---- MODULE Spec2Model ----
(***************************************************************************)
(* A model of the plan pipeline of the terminal coding agent               *)
(* (src/src/api.ts): the plan executor (executePlan, executeStep,          *)
(* createFile, modifyFile) as a state machine, and the relevance filter    *)
(* (filterRelevantFiles, extractKeywords) as operators applied to inputs   *)
(* drawn from bounded sets.                                                *)
(***************************************************************************)
EXTENDS Integers, Sequences, FiniteSets, TLC

VARIABLES
    plan,             \* executePlan's argument: [summary, steps]
    continueOnError,  \* executePlan's argument
    apiKey,           \* process.env.GEMINI_API_KEY is set
    fs,               \* the files on disk: full path -> [exists, content]
    dirs,             \* the directories on disk (full paths)
    pc,               \* where executePlan is
    i,                \* position in plan.steps of the step being executed
    j,                \* position in step.files of the file being processed
    fileExists,       \* executeStep's fileExists for the current file
    currentContent,   \* modifyFile's currentContent
    content,          \* the text callOpenRouter returned for the current file
    result,           \* executeStep's return value for the current step
    error,            \* what executeStep's catch block caught in the current step
    results,          \* executePlan's results object
    ops,              \* history: every filesystem access and LLM call made
    attempted,        \* history: positions of the steps executeStep was called on
    userInput,        \* filterRelevantFiles / extractKeywords input text
    referencedFiles,  \* filterRelevantFiles input
    allFiles,         \* filterRelevantFiles input (getFileList's result)
    keywords,         \* extractKeywords' result
    relevantFiles,    \* filterRelevantFiles' result
    fpc,              \* where the relevance-filter run is
    intent,           \* extractIntent's result
    llmResponse,      \* parsePlanResponse's argument, as lexemes
    parsedPlan,       \* parsePlanResponse's result
    cpc,              \* where a callOpenRouter call is
    requests,         \* history: the number of requests the call has sent
    reply,            \* what the upstream did with the request
    callOutcome,      \* what callOpenRouter returned or threw
    gpc,              \* where generateAndDisplayPlan is
    executeAnswer,    \* the user's answer to the confirmation prompt
    shown,            \* what generateAndDisplayPlan printed last
    external,         \* history: what a process outside the tool wrote, and when
    maxAttempts,      \* pollForAuth's argument
    attempt,          \* pollForAuth's loop variable i
    ppc,              \* where pollForAuth is
    pollRequests,     \* history: the number of poll requests sent
    polled,           \* history: how each poll request settled
    pollOutcome,      \* what pollForAuth returned or threw
    buffer,           \* smartInput's buffer, as characters
    cursorPos,        \* smartInput's cursorPos
    handlers,         \* the number of times keyHandler is registered on stdin
    epc,              \* where smartInput is
    resolved          \* what smartInput's promise resolved with

vars == <<plan, continueOnError, apiKey, fs, dirs, pc, i, j, fileExists,
          currentContent, content, result, error, results, ops, attempted,
          userInput, referencedFiles, allFiles, keywords, relevantFiles, fpc,
          intent, llmResponse, parsedPlan, cpc, requests, reply, callOutcome,
          gpc, executeAnswer, shown, external,
          maxAttempts, attempt, ppc, pollRequests, polled, pollOutcome,
          buffer, cursorPos, handlers, epc, resolved>>

execVars == <<plan, continueOnError, apiKey, fs, dirs, pc, i, j, fileExists,
              currentContent, content, result, error, results, ops, attempted>>

filterVars == <<userInput, referencedFiles, allFiles, keywords, relevantFiles, fpc>>

intentVars == <<intent>>

parseVars == <<llmResponse, parsedPlan>>

callVars == <<cpc, requests, reply, callOutcome>>

flowVars == <<gpc, executeAnswer, shown>>

pollVars == <<maxAttempts, attempt, ppc, pollRequests, polled, pollOutcome>>

editVars == <<buffer, cursorPos, handlers, epc, resolved>>

\* What the plan pipeline leaves alone.
auxVars == <<external, pollVars, editVars>>

\* What a run of the executor leaves alone.
nonExecVars == <<filterVars, intentVars, parseVars, callVars, flowVars, auxVars>>

(***************************************************************************)
(* Bounds of the executor model.                                           *)
(***************************************************************************)
MaxSteps == 3

(***************************************************************************)
(* Paths are sequences of segments; rootDir is process.cwd().              *)
(***************************************************************************)
RootDir == <<"root">>

PathA == <<"a">>

PathB == <<"d", "b">>

Paths == {PathA, PathB}

\* `${rootDir}/${filePath}`
FullPath(rootDir, filePath) == rootDir \o filePath

\* path.dirname
Dirname(p) == SubSeq(p, 1, Len(p) - 1)

(***************************************************************************)
(* Plan steps as JSON.parse may deliver them: parsePlanResponse checks     *)
(* only summary and steps, so an entry of steps may be null, and files     *)
(* may be absent, an array, or a value that is not iterable (a number).    *)
(***************************************************************************)
FileLists == {<<>>, <<PathA, PathB, PathB>>}

NullStep == [isNull |-> TRUE, step |-> 0, filesKind |-> "absent", files |-> <<>>]

ObjStep(n, kind, fl) == [isNull |-> FALSE, step |-> n, filesKind |-> kind, files |-> fl]

\* The step numbers the generator gave: consecutive, or its own numbering.
Numberings == {"ordinal", "tens"}

StepNumber(numbering, k) == IF numbering = "ordinal" THEN k ELSE 10 * k

StepShapes ==
    {NullStep} \cup {ObjStep(0, "absent", <<>>), ObjStep(0, "number", <<>>)}
               \cup {ObjStep(0, "array", fl) : fl \in FileLists}

Numbered(numbering, s) ==
    [k \in 1..Len(s) |->
        IF s[k].isNull THEN s[k] ELSE [s[k] EXCEPT !.step = StepNumber(numbering, k)]]

Plans ==
    {[summary |-> "x", steps |-> Numbered(nb, s)] :
        nb \in Numberings, s \in UNION {[1..len -> StepShapes] : len \in 0..MaxSteps}}

(***************************************************************************)
(* File contents and LLM answers are sequences of lexemes: an opening      *)
(* fence (three backticks, a language tag, a newline), a closing fence     *)
(* (a newline, three backticks), or text.                                  *)
(***************************************************************************)
FenceOpen == "FENCE-OPEN"

FenceClose == "FENCE-CLOSE"

Answers == {<<"new">>, <<FenceOpen, "new", FenceClose>>}

OldContent == <<"old">>

NoFile == [exists |-> FALSE, content |-> <<>>]

File(c) == [exists |-> TRUE, content |-> c]

\* createFile / modifyFile: strip one fenced-code wrapper.
CleanContent(c) ==
    IF c # <<>> /\ Head(c) = FenceOpen
    THEN LET t == Tail(c)
         IN  IF t # <<>> /\ t[Len(t)] = FenceClose THEN SubSeq(t, 1, Len(t) - 1) ELSE t
    ELSE c

\* The disks executePlan may start on: PathA present and directory d absent,
\* or PathA absent and PathB present in its directory.
DiskOf(present, d) ==
    [f |-> [p \in {FullPath(RootDir, q) : q \in Paths} |->
               IF p \in present THEN File(OldContent) ELSE NoFile],
     d |-> d]

Disks ==
    { DiskOf({FullPath(RootDir, PathA)}, {RootDir}),
      DiskOf({FullPath(RootDir, PathB)}, {RootDir, Dirname(FullPath(RootDir, PathB))}) }

Op(o, idx, p, d) == [op |-> o, idx |-> idx, path |-> p, data |-> d]

NoResult == [success |-> FALSE, message |-> <<"none">>]

NoResults == [totalSteps |-> 0, successCount |-> 0, failedSteps |-> <<>>]

(***************************************************************************)
(* JSON.  A text is a sequence of lexemes: the punctuation of JSON,        *)
(* string, number and literal (null, true, false) tokens, and, outside a   *)
(* document, words of prose and code-fence markers.  A brace in prose is   *)
(* the same character as a brace of a document.                            *)
(***************************************************************************)
\* A string is a sequence of pieces of text; Str(w) is the string with the
\* one piece w.
Str(w) == <<w>>

EmptyStr == <<>>

Token(kind, w, str, n) == [kind |-> kind, v |-> w, s |-> str, n |-> n]

Punct(c) == Token("punct", c, EmptyStr, 0)

StrTok(str) == Token("string", "", str, 0)

NumTok(n) == Token("number", "", EmptyStr, n)

LitTok(w) == Token("literal", w, EmptyStr, 0)

Prose(w) == Token("prose", w, EmptyStr, 0)

Fence(w) == Token("fence", w, EmptyStr, 0)

\* The values JSON.parse builds: s is the text of a string (or the name of a
\* literal), n a number, v the items of an array, m the members of an
\* object in their order.
JValue(type, str, n, items, members) ==
    [type |-> type, s |-> str, n |-> n, v |-> items, m |-> members]

JString(str) == JValue("string", str, 0, <<>>, <<>>)

JNumber(n) == JValue("number", EmptyStr, n, <<>>, <<>>)

JBool(b) == JValue("boolean", IF b THEN Str("true") ELSE Str("false"), 0, <<>>, <<>>)

JNull == JValue("null", Str("null"), 0, <<>>, <<>>)

JArray(items) == JValue("array", EmptyStr, 0, items, <<>>)

JObject(members) == JValue("object", EmptyStr, 0, <<>>, members)

Member(k, val) == [key |-> k, value |-> val]

\* Reading a property an object does not have.
Undefined == JValue("undefined", Str("undefined"), 0, <<>>, <<>>)

\* JSON.parse throws a SyntaxError.
Invalid == JValue("invalid", Str("SyntaxError"), 0, <<>>, <<>>)

IsPunct(tok, c) == tok.kind = "punct" /\ tok.v = c

\* JSON.parse of a scalar token.
ScalarValue(tok) ==
    CASE tok.kind = "string" -> JString(tok.s)
      [] tok.kind = "number" -> JNumber(tok.n)
      [] tok.kind = "literal" /\ tok.v = "null" -> JNull
      [] tok.kind = "literal" /\ tok.v = "true" -> JBool(TRUE)
      [] tok.kind = "literal" /\ tok.v = "false" -> JBool(FALSE)
      [] OTHER -> Invalid

\* JSON.parse of the lexemes a..b: a scalar, or a bracketed list of values or
\* of key : value members separated by commas.
RECURSIVE ParseSpan(_, _, _)
ParseSpan(toks, a, b) ==
    LET IsOpen(k)  == IsPunct(toks[k], "{") \/ IsPunct(toks[k], "[")
        IsClose(k) == IsPunct(toks[k], "}") \/ IsPunct(toks[k], "]")
        Level(k)   == Cardinality({m \in a..k : IsOpen(m)})
                        - Cardinality({m \in a..k : IsClose(m)})
        \* the bracket at a is closed by the one at b
        Closed     == Level(b) = 0 /\ \A k \in a..(b - 1) : Level(k) >= 1
        commas     == {k \in (a + 1)..(b - 1) : IsPunct(toks[k], ",") /\ Level(k) = 1}
        n          == Cardinality(commas) + 1
        Cut(r)     == IF r = 0 THEN a
                      ELSE IF r = n THEN b
                      ELSE CHOOSE k \in commas : Cardinality({m \in commas : m <= k}) = r
        items      == [r \in 1..n |-> ParseSpan(toks, Cut(r - 1) + 1, Cut(r) - 1)]
        members    == [r \in 1..n |->
                          LET from == Cut(r - 1) + 1
                              to   == Cut(r) - 1
                          IN  IF /\ to >= from + 2
                                 /\ toks[from].kind = "string"
                                 /\ IsPunct(toks[from + 1], ":")
                              THEN Member(toks[from].s, ParseSpan(toks, from + 2, to))
                              ELSE Member(EmptyStr, Invalid)]
    IN  IF a > b THEN Invalid
        ELSE IF a = b THEN ScalarValue(toks[a])
        ELSE IF IsPunct(toks[a], "[") /\ IsPunct(toks[b], "]") /\ Closed
        THEN IF b = a + 1 THEN JArray(<<>>)
             ELSE IF \E r \in 1..n : items[r] = Invalid THEN Invalid
             ELSE JArray(items)
        ELSE IF IsPunct(toks[a], "{") /\ IsPunct(toks[b], "}") /\ Closed
        THEN IF b = a + 1 THEN JObject(<<>>)
             ELSE IF \E r \in 1..n : members[r].value = Invalid THEN Invalid
             ELSE JObject(members)
        ELSE Invalid

JsonParse(toks) == ParseSpan(toks, 1, Len(toks))

\* obj.key: the value of the last member with that key, or undefined.
Get(obj, k) ==
    LET at == {r \in 1..Len(obj.m) : obj.m[r].key = k}
    IN  IF at = {} THEN Undefined
        ELSE obj.m[CHOOSE r \in at : \A q \in at : q <= r].value

\* !value is false.
Truthy(val) ==
    CASE val.type = "string" -> val.s # EmptyStr
      [] val.type = "number" -> val.n # 0
      [] val.type = "boolean" -> val.s = Str("true")
      [] val.type \in {"array", "object"} -> TRUE
      [] OTHER -> FALSE

IsArray(val) == val.type = "array"

FilterIdle ==
    /\ userInput = <<>>
    /\ referencedFiles = <<>>
    /\ allFiles = <<>>
    /\ keywords = <<>>
    /\ relevantFiles = <<>>
    /\ fpc = "idle"

IntentIdle == intent = "none"

ParseIdle ==
    /\ llmResponse = <<>>
    /\ parsedPlan = Undefined

(***************************************************************************)
(* Errors and the outcome of a call.                                       *)
(***************************************************************************)
\* new Error(msg): message is msg, String(error) is "Error: " + msg.
NewError(msg) == [isError |-> TRUE, message |-> msg, str |-> <<"Error: ">> \o msg]

\* A thrown value that is not an Error, with its string form; reading
\* .message of it gives undefined.
ThrownValue(text) == [isError |-> FALSE, message |-> Str("undefined"), str |-> text]

NoError == [isError |-> FALSE, message |-> EmptyStr, str |-> EmptyStr]

Returned(text) == [kind |-> "returned", content |-> text, error |-> NoError]

Throws(err) == [kind |-> "thrown", content |-> EmptyStr, error |-> err]

NoOutcome == [kind |-> "none", content |-> EmptyStr, error |-> NoError]

NoReply == [kind |-> "none", status |-> 0, body |-> EmptyStr, data |-> Undefined]

CallIdle ==
    /\ cpc = "idle"
    /\ requests = 0
    /\ reply = NoReply
    /\ callOutcome = NoOutcome

\* Nothing but the tool touches the disk.
ExternalIdle == external = <<>>

NoPollOutcome == [kind |-> "none", value |-> Undefined, message |-> EmptyStr]

\* pollForAuth has not been called.
PollIdle ==
    /\ maxAttempts = 0
    /\ attempt = 0
    /\ ppc = "idle"
    /\ pollRequests = 0
    /\ polled = <<>>
    /\ pollOutcome = NoPollOutcome

NotResolved == [done |-> FALSE, value |-> EmptyStr]

\* smartInput has not been called.
EditIdle ==
    /\ buffer = <<>>
    /\ cursorPos = 0
    /\ handlers = 0
    /\ epc = "idle"
    /\ resolved = NotResolved

AuxIdle ==
    /\ ExternalIdle
    /\ PollIdle
    /\ EditIdle

\* generateAndDisplayPlan has not been called.
FlowIdle ==
    /\ gpc = "idle"
    /\ executeAnswer = "none"
    /\ shown = <<>>

Init ==
    /\ plan \in Plans
    /\ continueOnError \in BOOLEAN
    /\ apiKey \in BOOLEAN
    /\ \E disk \in Disks : fs = disk.f /\ dirs = disk.d
    /\ pc = "start"
    /\ i = 0
    /\ j = 0
    /\ fileExists = FALSE
    /\ currentContent = <<>>
    /\ content = <<>>
    /\ result = NoResult
    /\ error = NoError
    /\ results = NoResults
    /\ ops = <<>>
    /\ attempted = <<>>
    /\ FilterIdle
    /\ IntentIdle
    /\ ParseIdle
    /\ CallIdle
    /\ FlowIdle
    /\ AuxIdle

(***************************************************************************)
(* callOpenRouter, lines 496-564.  The upstream either answers with a      *)
(* status, an error body and a JSON document, or the transport fails and   *)
(* fetch rejects, with an Error or with some other value.                  *)
(***************************************************************************)
\* A plausible slip: the key is not checked before the request.
KeyConfiguredUnchecked(key) == TRUE

\* Line 503: !apiKey is false.
KeyConfigured(key) == key

\* A plausible slip: the status is not looked at.
OkAlways(status) == TRUE

\* response.ok
Ok(status) == status >= 200 /\ status <= 299

IsNullish(val) == val.type \in {"null", "undefined"}

\* val?.key
OptProp(val, k) == IF IsNullish(val) THEN Undefined ELSE Get(val, k)

\* val?.[0]
OptFirst(val) ==
    IF IsNullish(val) THEN Undefined
    ELSE IF val.type = "array" /\ Len(val.v) > 0 THEN val.v[1]
    ELSE IF val.type = "object" THEN Get(val, Str("0"))
    ELSE Undefined

\* data.candidates?.[0]?.content?.parts?.[0]?.text
ContentOf(data) ==
    OptProp(OptFirst(OptProp(OptProp(OptFirst(Get(data, Str("candidates"))),
                                     Str("content")),
                             Str("parts"))),
            Str("text"))

\* The try block, lines 530-556, once fetch has settled.
CallTry(r) ==
    IF r.kind = "rejectError" THEN Throws(NewError(r.body))
    ELSE IF r.kind = "rejectValue" THEN Throws(ThrownValue(r.body))
    ELSE IF ~Ok(r.status)
    THEN Throws(NewError(<<"Gemini API request failed (", ToString(r.status), "): ">>
                            \o r.body))
    ELSE IF r.data.type = "invalid" THEN Throws(NewError(Str("SyntaxError")))
    ELSE IF IsNullish(r.data) THEN Throws(NewError(Str("TypeError")))
    ELSE IF ~Truthy(ContentOf(r.data))
    THEN Throws(NewError(Str("No content in Gemini response")))
    ELSE Returned(ContentOf(r.data).s)

\* The catch block, lines 557-563.
CallSettled(r) ==
    LET out == CallTry(r)
    IN  IF out.kind = "thrown" /\ out.error.isError
        THEN Throws(NewError(<<"Failed to call Gemini API: ">> \o out.error.message))
        ELSE out

\* The document of an answer whose first part is part.
AnswerData(part) ==
    JObject(<<Member(Str("candidates"),
        JArray(<<JObject(<<Member(Str("content"),
            JObject(<<Member(Str("parts"), JArray(<<part>>))>>))>>)>>))>>)

TextPart(text) == JObject(<<Member(Str("text"), text)>>)

\* Documents the upstream may send: an answer with text, with an empty or
\* null text, with a part without text, without parts, without candidates,
\* an error document, null, and a body that is not JSON.
ReplyData ==
    {AnswerData(TextPart(JString(a))) : a \in Answers}
        \cup { AnswerData(TextPart(JString(EmptyStr))),
               AnswerData(TextPart(JNull)),
               AnswerData(JObject(<<>>)),
               JObject(<<Member(Str("candidates"),
                   JArray(<<JObject(<<Member(Str("finishReason"), JString(Str("SAFETY")))>>)>>))>>),
               JObject(<<Member(Str("candidates"), JArray(<<>>))>>),
               JObject(<<Member(Str("error"), JObject(<<>>))>>),
               JNull,
               Invalid }

Statuses == {200, 204, 299, 300, 400, 429, 500}

Bodies == {EmptyStr, Str("quota exceeded")}

Response(status, body, data) ==
    [kind |-> "response", status |-> status, body |-> body, data |-> data]

Replies ==
    {Response(st, b, d) : st \in Statuses, b \in Bodies, d \in ReplyData}
        \cup { [kind |-> "rejectError", status |-> 0, body |-> Str("fetch failed"),
                data |-> Undefined],
               [kind |-> "rejectValue", status |-> 0, body |-> Str("timeout"),
                data |-> Undefined] }

(***************************************************************************)
(* executePlan, lines 762-766: the results object.                         *)
(***************************************************************************)
\* A plausible slip: an off-by-one total.
InitialResultsOffByOne(p) ==
    [totalSteps |-> Len(p.steps) + 1, successCount |-> 0, failedSteps |-> <<>>]

InitialResults(p) ==
    [totalSteps |-> Len(p.steps), successCount |-> 0, failedSteps |-> <<>>]

ExecutePlan ==
    /\ pc = "start"
    /\ results' = InitialResults(plan)
    /\ i' = 0
    /\ pc' = "loop"
    /\ UNCHANGED <<plan, continueOnError, apiKey, fs, dirs, j, fileExists,
                   currentContent, content, result, error, ops, attempted>>
    /\ UNCHANGED nonExecVars

(***************************************************************************)
(* executeStep, lines 585-596: up to the first file.  Reading a field of   *)
(* a null step, or iterating a value that is not iterable, raises a        *)
(* TypeError inside the try block, which the catch turns into a failure.   *)
(***************************************************************************)
\* A plausible slip: testing only the length (step.files.length === 0), which
\* raises a TypeError on a step without files.
NoFilesLengthOnly(step) == step.filesKind = "array" /\ Len(step.files) = 0

NoFiles(step) ==
    step.filesKind = "absent" \/ (step.filesKind = "array" /\ Len(step.files) = 0)

Iterable(step) == step.filesKind = "array"

Failure(msg) == [success |-> FALSE, message |-> msg]

Success(msg) == [success |-> TRUE, message |-> msg]

\* A plausible slip: the message is read from a value that is not an Error.
StepMessageOfAny(err) == err.message

\* Line 618: error instanceof Error ? error.message : String(error)
StepMessage(err) == IF err.isError THEN err.message ELSE err.str

\* The catch block of executeStep, lines 615-620.
Caught(err) == Failure(StepMessage(err))

\* A plausible slip: the catch block goes on with the loop, trying the file
\* again.
AfterCatchRetry == "file"

\* After the catch block executeStep has returned.
AfterCatch == "stepDone"

\* History: the step at position idx was handed to executeStep, which is still
\* running or has returned success or failure.
Attempt(idx, r) ==
    [idx |-> idx,
     outcome |-> IF r = NoResult THEN "running"
                 ELSE IF r.success THEN "success" ELSE "failure"]

Settled(att, idx, r) == [att EXCEPT ![Len(att)] = Attempt(idx, r)]

ExecuteStepBody ==
    /\ pc = "loop"
    /\ i < Len(plan.steps)
    /\ i' = i + 1
    /\ LET step == plan.steps[i + 1]
       IN  IF step.isNull
           THEN /\ error' = NewError(Str("TypeError"))
                /\ result' = Caught(error')
                /\ pc' = AfterCatch
                /\ j' = 0
           ELSE IF NoFiles(step)
           THEN /\ error' = NoError
                /\ result' = Success(Str("No files to modify"))
                /\ pc' = "stepDone"
                /\ j' = 0
           ELSE IF ~Iterable(step)
           THEN /\ error' = NewError(Str("TypeError"))
                /\ result' = Caught(error')
                /\ pc' = AfterCatch
                /\ j' = 0
           ELSE IF Len(step.files) = 0
           THEN /\ error' = NoError
                /\ result' = Success(Str("Successfully completed"))
                /\ pc' = "stepDone"
                /\ j' = 0
           ELSE /\ error' = NoError
                /\ result' = NoResult
                /\ pc' = "file"
                /\ j' = 1
    /\ attempted' = Append(attempted, Attempt(i + 1, result'))
    /\ UNCHANGED <<continueOnError, apiKey, fs, dirs, fileExists,
                   currentContent, content, results, ops>>
    /\ UNCHANGED nonExecVars

\* A plausible slip: defaulting step.files in place (step.files = step.files || []).
ExecuteStepDefaultingFiles ==
    /\ ExecuteStepBody
    /\ plan' = [plan EXCEPT !.steps[i + 1] =
                    IF @.filesKind = "absent" THEN [@ EXCEPT !.filesKind = "array"] ELSE @]

\* executeStep reads its step and assigns to none of its fields.
ExecuteStep ==
    /\ ExecuteStepBody
    /\ UNCHANGED plan

(***************************************************************************)
(* executeStep lines 596-608 with the synchronous head of modifyFile       *)
(* (lines 700-723) or createFile (lines 643-658) and of callOpenRouter     *)
(* (lines 502-539): the existence check, the choice of the operation, the  *)
(* read of the current content (modify), the file tree for the prompt,     *)
(* the API key check and the request.  The filesystem may fail the read    *)
(* or the tree listing.                                                    *)
(***************************************************************************)
CurrentStep == plan.steps[i]

CurrentPath == FullPath(RootDir, CurrentStep.files[j])

\* A plausible slip: the result of the existence check is not used.
OperationAlwaysCreate(exists) == "create"

\* Lines 600-608: modify a file that exists, create one that does not.
Operation(exists) == IF exists THEN "modify" ELSE "create"

\* A plausible slip: a rollback that removes what the step has written.
DiskAfterCatchRolledBack(disk) ==
    [p \in DOMAIN disk |->
        IF \E n \in 1..Len(ops) : ops[n].op = "write" /\ ops[n].idx = i /\ ops[n].path = p
        THEN NoFile
        ELSE disk[p]]

\* The catch block of executeStep (lines 615-620) does nothing to the disk.
DiskAfterCatch(disk) == disk

\* The disk once this part of executeStep is over with result r.
DiskAfter(disk, r) == IF r = NoResult \/ r.success THEN disk ELSE DiskAfterCatch(disk)

BeginOutcomes == {"ok", "readError", "treeError"}

\* A plausible slip: the current content is left out of the prompt.
CurrentInPromptLeftOut(cur) == <<>>

\* Lines 718-719: the user prompt of modifyFile carries currentContent;
\* that of createFile (645-656) carries no file content.
CurrentInPrompt(cur) == cur

\* A plausible slip: the call is not awaited and the loop goes on.
AfterRequestNotAwaited == "file"

\* Lines 658 and 723, await callOpenRouter(...): createFile / modifyFile is
\* suspended until the call settles, and executeStep (lines 603, 607) and
\* executePlan (line 769) are suspended with it.
AfterRequest == "llm"

\* A plausible slip: existence is looked up in the file list made before the
\* run, which has none of the files the run has written.
ExistsSyncFromListing(disk, p) == disk[p].exists /\ disk[p].content = OldContent

\* Line 598, existsSync(fullPath): asked of the disk when the path is reached.
ExistsSync(disk, p) == disk[p].exists

BeginFile ==
    /\ pc = "file"
    /\ \E outcome \in BeginOutcomes :
        LET p       == CurrentPath
            ex      == ExistsSync(fs, p)
            op      == Operation(ex)
            checked == ops \o <<Op("exists", i, p, <<>>), Op(op, i, p, <<>>)>>
            readOps == IF op = "modify" THEN Append(checked, Op("read", i, p, <<>>))
                       ELSE checked
            cur     == IF op = "modify" THEN fs[p].content ELSE <<>>
            treeOps == Append(readOps, Op("tree", i, p, <<>>))
            callOps == Append(treeOps, Op("llm", i, p, CurrentInPrompt(cur)))
        IN  /\ fileExists' = ex
            /\ IF outcome = "readError"
               THEN /\ op = "modify"
                    /\ ops' = readOps
                    /\ currentContent' = currentContent
                    /\ error' = NewError(Str("readError"))
                    /\ result' = Caught(error')
                    /\ pc' = AfterCatch
               ELSE IF outcome = "treeError"
               THEN /\ ops' = treeOps
                    /\ currentContent' = cur
                    /\ error' = NewError(Str("treeError"))
                    /\ result' = Caught(error')
                    /\ pc' = AfterCatch
               ELSE IF ~KeyConfigured(apiKey)
               THEN /\ ops' = callOps
                    /\ currentContent' = cur
                    /\ error' = NewError(Str("GEMINI_API_KEY environment variable is not set"))
                    /\ result' = Caught(error')
                    /\ pc' = AfterCatch
               ELSE /\ ops' = Append(callOps, Op("request", i, p, CurrentInPrompt(cur)))
                    /\ currentContent' = cur
                    /\ error' = error
                    /\ result' = result
                    /\ pc' = AfterRequest
    /\ attempted' = Settled(attempted, i, result')
    /\ fs' = DiskAfter(fs, result')
    /\ UNCHANGED <<plan, continueOnError, apiKey, dirs, i, j, content, results>>
    /\ UNCHANGED nonExecVars

(***************************************************************************)
(* callOpenRouter lines 541-563 inside createFile / modifyFile: fetch has  *)
(* settled.  The text is returned, or what callOpenRouter throws reaches   *)
(* the catch block of executeStep.                                         *)
(***************************************************************************)
\* What the upstream may do with a request of the executor: answer with a
\* text, answer with an error status, or fail with a value that is not an
\* Error.
ExecReplies ==
    {Response(200, EmptyStr, AnswerData(TextPart(JString(a)))) : a \in Answers}
        \cup { Response(500, Str("quota exceeded"), JNull),
               [kind |-> "rejectValue", status |-> 0, body |-> Str("timeout"),
                data |-> Undefined] }

LLMReturn ==
    /\ pc = "llm"
    /\ \E r \in ExecReplies :
          LET out == CallSettled(r)
          IN  IF out.kind = "returned"
              THEN /\ content' = out.content
                   /\ error' = error
                   /\ result' = result
                   /\ pc' = "write"
              ELSE /\ content' = content
                   /\ error' = out.error
                   /\ result' = Caught(error')
                   /\ pc' = AfterCatch
    /\ ops' = Append(ops, Op("settled", i, CurrentPath, <<>>))
    /\ attempted' = Settled(attempted, i, result')
    /\ fs' = DiskAfter(fs, result')
    /\ UNCHANGED <<plan, continueOnError, apiKey, dirs, i, j, fileExists,
                   currentContent, results>>
    /\ UNCHANGED nonExecVars

(***************************************************************************)
(* createFile lines 661-677 / modifyFile lines 726-736: clean the answer,  *)
(* create the parent directory (create only) and write the file; then      *)
(* executeStep's loop goes to the next file or returns success (611-614).  *)
(***************************************************************************)
WriteOutcomes == {"ok", "mkdirError", "writeError"}

\* A plausible slip: create opens the file exclusively (flag wx), so that
\* the write fails on a path that exists by then.
OverwritesUnlessCreating(creating, exists) == ~(creating /\ exists)

\* Lines 676 and 735: writeFileSync with its default flag replaces whatever
\* is at the path.
Overwrites(creating, exists) == TRUE

WriteFile ==
    /\ pc = "write"
    /\ \E outcome \in WriteOutcomes :
        LET p         == CurrentPath
            dir       == Dirname(p)
            clean     == CleanContent(content)
            creating  == Operation(fileExists) = "create"
            needMkdir == creating /\ dir \notin dirs
            mkOps     == IF creating
                         THEN Append(ops, Op("existsDir", i, dir, <<>>))
                         ELSE ops
            mkdirOps  == IF needMkdir THEN Append(mkOps, Op("mkdir", i, dir, <<>>)) ELSE mkOps
            writeOps  == Append(mkdirOps, Op("write", i, p, clean))
        IN  IF outcome = "mkdirError"
            THEN /\ needMkdir
                 /\ ops' = mkdirOps
                 /\ UNCHANGED <<dirs, j>>
                 /\ error' = NewError(Str("mkdirError"))
                 /\ result' = Caught(error')
                 /\ fs' = DiskAfter(fs, result')
                 /\ pc' = AfterCatch
            ELSE IF outcome = "writeError" \/ ~Overwrites(creating, fs[p].exists)
            THEN /\ ops' = writeOps
                 /\ dirs' = IF needMkdir THEN dirs \cup {dir} ELSE dirs
                 /\ UNCHANGED j
                 /\ error' = NewError(Str(IF outcome = "writeError" THEN "writeError"
                                                                       ELSE "EEXIST"))
                 /\ result' = Caught(error')
                 /\ fs' = DiskAfter(fs, result')
                 /\ pc' = AfterCatch
            ELSE /\ ops' = writeOps
                 /\ dirs' = IF needMkdir THEN dirs \cup {dir} ELSE dirs
                 /\ fs' = [fs EXCEPT ![p] = File(clean)]
                 /\ error' = error
                 /\ IF j < Len(CurrentStep.files)
                    THEN /\ j' = j + 1
                         /\ result' = result
                         /\ pc' = "file"
                    ELSE /\ j' = j
                         /\ result' = Success(Str("Successfully completed"))
                         /\ pc' = "stepDone"
    /\ content' = <<>>
    /\ currentContent' = <<>>
    /\ attempted' = Settled(attempted, i, result')
    /\ UNCHANGED <<plan, continueOnError, apiKey, i, fileExists, results>>
    /\ UNCHANGED nonExecVars

(***************************************************************************)
(* executePlan lines 771-782: account for the step's result.  step.step    *)
(* is read outside any try block: on a null step it raises a TypeError     *)
(* that leaves executePlan.                                                *)
(***************************************************************************)
\* A plausible slip: recording the step's position in the plan.
FailedEntryPosition(idx, step) == idx

FailedEntry(idx, step) == step.step

\* A plausible slip: the break is missing.
StopsOnFailureNever(coe) == FALSE

StopsOnFailure(coe) == ~coe

\* A plausible slip: counting every executed step as a success.
AccountedCountingAll(res, r, idx, step) ==
    IF r.success
    THEN [res EXCEPT !.successCount = @ + 1]
    ELSE [res EXCEPT !.successCount = @ + 1,
                     !.failedSteps = Append(@, FailedEntry(idx, step))]

Accounted(res, r, idx, step) ==
    IF r.success
    THEN [res EXCEPT !.successCount = @ + 1]
    ELSE [res EXCEPT !.failedSteps = Append(@, FailedEntry(idx, step))]

StepResult ==
    /\ pc = "stepDone"
    /\ IF ~result.success /\ CurrentStep.isNull
       THEN /\ results' = results
            /\ pc' = "raised"
       ELSE /\ results' = Accounted(results, result, i, CurrentStep)
            /\ pc' = IF ~result.success /\ StopsOnFailure(continueOnError)
                     THEN "returned"
                     ELSE "loop"
    /\ UNCHANGED <<plan, continueOnError, apiKey, fs, dirs, i, j, fileExists,
                   currentContent, content, result, error, ops, attempted>>
    /\ UNCHANGED nonExecVars

(***************************************************************************)
(* executePlan lines 768 and 795: the loop is over, the results are        *)
(* returned.                                                               *)
(***************************************************************************)
Return ==
    /\ pc = "loop"
    /\ i = Len(plan.steps)
    /\ pc' = "returned"
    /\ UNCHANGED <<plan, continueOnError, apiKey, fs, dirs, i, j, fileExists,
                   currentContent, content, result, error, results, ops, attempted>>
    /\ UNCHANGED nonExecVars

Next ==
    \/ ExecutePlan
    \/ ExecuteStep
    \/ BeginFile
    \/ LLMReturn
    \/ WriteFile
    \/ StepResult
    \/ Return

Spec == Init /\ [][Next]_vars

(***************************************************************************)
(* Properties of the executor.                                             *)
(***************************************************************************)
Terminated == pc \in {"returned", "raised"}

FailedAttempts == {k \in 1..Len(attempted) : attempted[k].outcome = "failure"}

\* The failed attempts whose step number executePlan has appended: all but the
\* one whose result is still to be accounted for, or whose accounting raised.
AccountedFailures ==
    SelectSeq(attempted,
              LAMBDA a : /\ a.outcome = "failure"
                         /\ ~(a.idx = i /\ pc \in {"stepDone", "raised"}))

OpsOfStep(k) == {n \in 1..Len(ops) : ops[n].idx = k}

C2_AttemptsEveryStep ==
    continueOnError =>
        /\ Terminated => Len(attempted) = Len(plan.steps)
        /\ pc = "returned" =>
              results.successCount + Len(results.failedSteps) = results.totalSteps

\* C3: once executePlan has built its results, totalSteps is the number of
\* steps of the plan and successCount + len(failedSteps) <= totalSteps.
C3_CountsWithinTotal ==
    pc # "start" =>
        /\ results.totalSteps = Len(plan.steps)
        /\ results.successCount + Len(results.failedSteps) <= results.totalSteps

\* C3 witness: an early stop, with a success and a failure counted and a step
\* left over.
C3_Witness ==
    /\ pc = "returned"
    /\ results.successCount = 1
    /\ Len(results.failedSteps) = 1
    /\ results.totalSteps = 3

\* C4: failedSteps holds, in the order of failure, the step field of each
\* step that was attempted and failed, not the step's position in the plan.
C4_FailedStepsAreStepNumbers ==
    results.failedSteps =
        [n \in 1..Len(AccountedFailures) |-> plan.steps[AccountedFailures[n].idx].step]

\* C4 witness: steps numbered 10, 20, 30, the second and third fail, and
\* failedSteps is [20, 30].
C4_Witness ==
    /\ pc = "returned"
    /\ Len(plan.steps) = 3
    /\ \A k \in 1..3 : ~plan.steps[k].isNull /\ plan.steps[k].step = 10 * k
    /\ FailedAttempts = {2, 3}
    /\ results.failedSteps = <<20, 30>>

\* C5: executePlan never raises: every error of a step becomes that step's
\* failure.
C5_NeverRaises == pc # "raised"

\* C6: a step whose files is absent or empty succeeds, and no existence
\* check, LLM call, read or write is made for it.
C6_NoFilesStepSucceeds ==
    \A n \in 1..Len(attempted) :
        LET step == plan.steps[attempted[n].idx]
        IN  (/\ ~step.isNull
             /\ \/ step.filesKind = "absent"
                \/ step.filesKind = "array" /\ step.files = <<>>)
            => /\ attempted[n].outcome = "success"
               /\ OpsOfStep(attempted[n].idx) = {}

\* C6 witness: a step without files and a step with an empty files have both
\* been executed.
C6_Witness ==
    /\ pc = "returned"
    /\ \E m, n \in 1..Len(attempted) :
          /\ ~plan.steps[m].isNull /\ plan.steps[m].filesKind = "absent"
          /\ ~plan.steps[n].isNull /\ plan.steps[n].filesKind = "array"
          /\ plan.steps[n].files = <<>>
          /\ attempted[m].outcome = "success"
          /\ attempted[n].outcome = "success"

\* C7: on a plan with zero steps executePlan attempts nothing, makes no LLM
\* call and no filesystem access, and returns
\* {totalSteps:0, successCount:0, failedSteps:[]}, whatever continueOnError is.
C7_EmptyPlan ==
    Len(plan.steps) = 0 =>
        /\ ops = <<>>
        /\ attempted = <<>>
        /\ pc \in {"start", "loop", "returned"}
        /\ pc = "returned" =>
              results = [totalSteps |-> 0, successCount |-> 0, failedSteps |-> <<>>]

\* C7 witness: executePlan has returned on an empty plan with
\* continueOnError = true.
C7_Witness ==
    /\ Len(plan.steps) = 0
    /\ continueOnError
    /\ pc = "returned"

\* C8: no step of executePlan, executeStep, createFile or modifyFile changes
\* the plan or a step of it.
C8_PlanNeverChanged == [][plan' = plan]_vars

\* C8 witness: an execution that wrote a file and had a failing step has
\* returned.
C8_Witness ==
    /\ pc = "returned"
    /\ \E n \in 1..Len(ops) : ops[n].op = "write"
    /\ FailedAttempts # {}

(***************************************************************************)
(* The relevance filter.  Texts and paths are sequences of characters.     *)
(***************************************************************************)
\* String.prototype.toLowerCase, on ASCII.
LowerChar(c) ==
    CASE c = "A" -> "a" [] c = "B" -> "b" [] c = "C" -> "c"
      [] c = "D" -> "d" [] c = "E" -> "e" [] c = "F" -> "f"
      [] c = "G" -> "g" [] c = "H" -> "h" [] c = "I" -> "i"
      [] c = "J" -> "j" [] c = "K" -> "k" [] c = "L" -> "l"
      [] c = "M" -> "m" [] c = "N" -> "n" [] c = "O" -> "o"
      [] c = "P" -> "p" [] c = "Q" -> "q" [] c = "R" -> "r"
      [] c = "S" -> "s" [] c = "T" -> "t" [] c = "U" -> "u"
      [] c = "V" -> "v" [] c = "W" -> "w" [] c = "X" -> "x"
      [] c = "Y" -> "y" [] c = "Z" -> "z"
      [] OTHER -> c

ToLowerCase(str) == [k \in 1..Len(str) |-> LowerChar(str[k])]

\* The character class of the split pattern /[\s,.-]+/.
SplitClass == {" ", "\t", ",", ".", "-"}

\* String.prototype.split(/[\s,.-]+/): the pieces between the maximal runs of
\* pattern characters, in order, with an empty piece before a leading run
\* and after a trailing one (and one empty piece for the empty string).
Split(str) ==
    LET n         == Len(str)
        IsSep(k)  == str[k] \in SplitClass
        Starts    == {k \in 1..n : ~IsSep(k) /\ (k = 1 \/ IsSep(k - 1))}
        EndOf(k)  == CHOOSE e \in k..n :
                        /\ \A m \in k..e : ~IsSep(m)
                        /\ (e = n \/ IsSep(e + 1))
        StartNo(r) == CHOOSE k \in Starts : Cardinality({m \in Starts : m <= k}) = r
        pieces    == [r \in 1..Cardinality(Starts) |->
                        LET k == StartNo(r) IN SubSeq(str, k, EndOf(k))]
        leading   == IF n = 0 \/ IsSep(1) THEN << <<>> >> ELSE <<>>
        trailing  == IF n > 0 /\ IsSep(n) THEN << <<>> >> ELSE <<>>
    IN  leading \o pieces \o trailing

\* Array.prototype.slice(0, n)
SliceTo(seq, n) == SubSeq(seq, 1, IF Len(seq) < n THEN Len(seq) ELSE n)

\* String.prototype.includes
Includes(str, sub) ==
    \E k \in 0..(Len(str) - Len(sub)) : SubSeq(str, k + 1, k + Len(sub)) = sub

\* Array.prototype.includes
Contains(seq, x) == \E k \in 1..Len(seq) : seq[k] = x

\* extractKeywords' commonWords.
CommonWords ==
    {
      <<"t", "h", "e">>, <<"a">>, <<"a", "n">>,
      <<"a", "n", "d">>, <<"o", "r">>, <<"b", "u", "t">>,
      <<"i", "n">>, <<"o", "n">>, <<"a", "t">>,
      <<"t", "o">>, <<"f", "o", "r">>, <<"o", "f">>,
      <<"w", "i", "t", "h">>, <<"b", "y">>, <<"i", "s">>,
      <<"a", "r", "e">>, <<"w", "a", "s">>, <<"w", "e", "r", "e">>,
      <<"b", "e">>, <<"b", "e", "e", "n">>, <<"h", "a", "v", "e">>,
      <<"h", "a", "s">>, <<"h", "a", "d">>, <<"d", "o">>,
      <<"d", "o", "e", "s">>, <<"d", "i", "d">>, <<"w", "i", "l", "l">>,
      <<"w", "o", "u", "l", "d">>, <<"c", "o", "u", "l", "d">>, <<"s", "h", "o", "u", "l", "d">>,
      <<"m", "a", "y">>, <<"m", "i", "g", "h", "t">>, <<"c", "a", "n">>,
      <<"m", "u", "s", "t">>, <<"s", "h", "a", "l", "l">>, <<"t", "h", "i", "s">>,
      <<"t", "h", "a", "t">>, <<"t", "h", "e", "s", "e">>, <<"t", "h", "o", "s", "e">>,
      <<"i">>, <<"y", "o", "u">>, <<"h", "e">>,
      <<"s", "h", "e">>, <<"i", "t">>, <<"w", "e">>,
      <<"t", "h", "e", "y">>, <<"m", "e">>, <<"h", "i", "m">>,
      <<"h", "e", "r">>, <<"u", "s">>, <<"t", "h", "e", "m">>,
      <<"m", "y">>, <<"y", "o", "u", "r">>, <<"h", "i", "s">>,
      <<"h", "e", "r">>, <<"i", "t", "s">>, <<"o", "u", "r">>,
      <<"t", "h", "e", "i", "r">> }

ShortWord == 2

KeywordCap == 10

FileCap == 20

\* A plausible slip: an off-by-one length test (word.length >= 2).
IsMeaningfulFromTwo(word) == Len(word) >= ShortWord /\ word \notin CommonWords

\* extractKeywords' filter predicate.
IsMeaningful(word) == Len(word) > ShortWord /\ word \notin CommonWords

ExtractKeywords(input) ==
    SliceTo(SelectSeq(Split(ToLowerCase(input)), IsMeaningful), KeywordCap)

\* A plausible slip: the path is matched as it is written.
FilterRelevantFilesCaseSensitive(input, referenced, all) ==
    LET kws == ExtractKeywords(input)
        HasKeyword(file) ==
            \E n \in 1..Len(kws) : Includes(file, ToLowerCase(kws[n]))
        Matches(file) == ~Contains(referenced, file) /\ HasKeyword(file)
    IN  SliceTo(referenced \o SelectSeq(all, Matches), FileCap)

FilterRelevantFiles(input, referenced, all) ==
    LET kws == ExtractKeywords(input)
        HasKeyword(file) ==
            \E n \in 1..Len(kws) : Includes(ToLowerCase(file), ToLowerCase(kws[n]))
        Matches(file) == ~Contains(referenced, file) /\ HasKeyword(file)
    IN  SliceTo(referenced \o SelectSeq(all, Matches), FileCap)

(***************************************************************************)
(* Runs of extractKeywords and filterRelevantFiles on bounded inputs.      *)
(***************************************************************************)
MaxChunks == 2

MaxPad == 11

MaxRefFree == 2

MaxRefPad == 21

\* No executePlan call is in progress.
ExecQuiet ==
    /\ plan = [summary |-> "x", steps |-> <<>>]
    /\ continueOnError = FALSE
    /\ fs = [p \in {FullPath(RootDir, q) : q \in Paths} |-> NoFile]
    /\ dirs = {RootDir}
    /\ pc = "idle"
    /\ i = 0
    /\ j = 0
    /\ fileExists = FALSE
    /\ currentContent = <<>>
    /\ content = <<>>
    /\ result = NoResult
    /\ error = NoError
    /\ results = NoResults
    /\ ops = <<>>
    /\ attempted = <<>>

ExecIdle ==
    /\ ExecQuiet
    /\ apiKey = FALSE

RECURSIVE Flatten(_)
Flatten(seqs) == IF seqs = <<>> THEN <<>> ELSE Head(seqs) \o Flatten(Tail(seqs))

SeqsUpTo(S, n) == UNION {[1..len -> S] : len \in 0..n}

\* Pieces of request text: words in several cases (a stop word, a short word,
\* a short stop word, keywords), pattern characters, and a character that is
\* not one.
Chunks ==
    { <<"A", "d", "d">>, <<"T", "H", "E">>, <<"t", "o">>, <<"a", "b">>, <<"a", "u", "t", "h">>,
      <<" ">>, <<",">>, <<"-">>, <<".">>, <<"\t">>, <<"_">> }

\* A keyword between two spaces.
PadWord == <<" ", "f", "o", "o", " ">>

RECURSIVE Pad(_)
Pad(k) == IF k = 0 THEN <<>> ELSE PadWord \o Pad(k - 1)

\* How many keywords may follow a piece: none, one, or about as many as
\* extractKeywords keeps.
PadCounts == {0, 1, MaxPad - 2, MaxPad}

\* Texts: up to MaxChunks pieces, each followed by a run of keywords.
KeywordTexts ==
    {Flatten([m \in 1..Len(c) |-> c[m] \o Pad(k[m])]) :
        c \in SeqsUpTo(Chunks, MaxChunks), k \in [1..MaxChunks -> PadCounts]}

InitKeywords ==
    /\ ExecIdle
    /\ userInput \in KeywordTexts
    /\ referencedFiles = <<>>
    /\ allFiles = <<>>
    /\ keywords = <<>>
    /\ relevantFiles = <<>>
    /\ fpc = "text"
    /\ IntentIdle
    /\ ParseIdle
    /\ CallIdle
    /\ FlowIdle
    /\ AuxIdle

ExtractKeywordsCall ==
    /\ fpc = "text"
    /\ keywords' = ExtractKeywords(userInput)
    /\ fpc' = "keywords"
    /\ UNCHANGED <<userInput, referencedFiles, allFiles, relevantFiles>>
    /\ UNCHANGED <<execVars, intentVars, parseVars, callVars>>
    /\ UNCHANGED <<flowVars, auxVars>>

SpecKeywords == InitKeywords /\ [][ExtractKeywordsCall]_vars

\* Request texts for the filter: no keyword, two keywords, a keyword and a
\* stop word.
FilterTexts == {<<>>, <<"A", "d", "d", " ", "A", "u", "t", "h">>, <<"r", "e", "a", "d", "m", "e", " ", "t", "h", "e">>}

\* getFileList's result is sorted (files.sort(): by UTF-16 code unit).
FileUniverse == <<<<"R", "E", "A", "D", "M", "E", ".", "m", "d">>, <<"a", "d", "d", ".", "t", "s">>, <<"s", "r", "c", "/", "A", "u", "t", "h", ".", "t", "s">>, <<"s", "r", "c", "/", "a", "u", "t", "h", ".", "t", "s">>>>

FileListings ==
    {SelectSeq(FileUniverse, LAMBDA f : f \in S) :
        S \in SUBSET {FileUniverse[n] : n \in 1..Len(FileUniverse)}}

\* What the user may reference with @: the characters after @ up to the next
\* whitespace, each @ giving one entry (index.ts lines 310-313), whether or
\* not such a file exists and whether or not it was referenced before.
RefChoices == {<<"s", "r", "c", "/", "a", "u", "t", "h", ".", "t", "s">>, <<"R", "E", "A", "D", "M", "E", ".", "m", "d">>, <<"n", "e", "w", ".", "t", "s">>}

Digits == <<"0", "1", "2", "3", "4", "5", "6", "7", "8", "9">>

PadPath(n) == <<"z", Digits[(n \div 10) + 1], Digits[(n % 10) + 1]>>

PadPaths(k) == [n \in 1..k |-> PadPath(n)]

ReferencedLists ==
    {r \o PadPaths(k) : r \in SeqsUpTo(RefChoices, MaxRefFree), k \in 0..MaxRefPad}

InitFilter ==
    /\ ExecIdle
    /\ userInput \in FilterTexts
    /\ referencedFiles \in ReferencedLists
    /\ allFiles \in FileListings
    /\ keywords = <<>>
    /\ relevantFiles = <<>>
    /\ fpc = "files"
    /\ IntentIdle
    /\ ParseIdle
    /\ CallIdle
    /\ FlowIdle
    /\ AuxIdle

FilterRelevantFilesCall ==
    /\ fpc = "files"
    /\ keywords' = ExtractKeywords(userInput)
    /\ relevantFiles' = FilterRelevantFiles(userInput, referencedFiles, allFiles)
    /\ fpc' = "filtered"
    /\ UNCHANGED <<userInput, referencedFiles, allFiles>>
    /\ UNCHANGED <<execVars, intentVars, parseVars, callVars>>
    /\ UNCHANGED <<flowVars, auxVars>>

SpecFilter == InitFilter /\ [][FilterRelevantFilesCall]_vars

(***************************************************************************)
(* extractIntent (the intent classifier), lines 345-366.                   *)
(***************************************************************************)
\* A plausible slip: the fix group tested before the create group.
ExtractIntentFixFirst(input) ==
    LET lowerInput == ToLowerCase(input)
    IN
        IF  \/ Includes(lowerInput, <<"f", "i", "x">>)
            \/ Includes(lowerInput, <<"b", "u", "g">>)
            \/ Includes(lowerInput, <<"e", "r", "r", "o", "r">>)
        THEN "Fix bugs or errors"
        ELSE IF \/ Includes(lowerInput, <<"a", "d", "d">>)
                \/ Includes(lowerInput, <<"c", "r", "e", "a", "t", "e">>)
                \/ Includes(lowerInput, <<"n", "e", "w">>)
        THEN "Create/Add new functionality"
        ELSE IF \/ Includes(lowerInput, <<"m", "o", "d", "i", "f", "y">>)
                \/ Includes(lowerInput, <<"c", "h", "a", "n", "g", "e">>)
                \/ Includes(lowerInput, <<"u", "p", "d", "a", "t", "e">>)
        THEN "Modify existing functionality"
        ELSE IF \/ Includes(lowerInput, <<"r", "e", "m", "o", "v", "e">>)
                \/ Includes(lowerInput, <<"d", "e", "l", "e", "t", "e">>)
                \/ Includes(lowerInput, <<"c", "l", "e", "a", "n">>)
        THEN "Remove/Delete functionality"
        ELSE IF \/ Includes(lowerInput, <<"r", "e", "f", "a", "c", "t", "o", "r">>)
                \/ Includes(lowerInput, <<"i", "m", "p", "r", "o", "v", "e">>)
                \/ Includes(lowerInput, <<"o", "p", "t", "i", "m", "i", "z", "e">>)
        THEN "Refactor/Improve code"
        ELSE IF \/ Includes(lowerInput, <<"t", "e", "s", "t">>)
                \/ Includes(lowerInput, <<"t", "e", "s", "t", "i", "n", "g">>)
        THEN "Add or modify tests"
        ELSE IF \/ Includes(lowerInput, <<"d", "o", "c", "u", "m", "e", "n", "t">>)
                \/ Includes(lowerInput, <<"c", "o", "m", "m", "e", "n", "t">>)
                \/ Includes(lowerInput, <<"r", "e", "a", "d", "m", "e">>)
        THEN "Add or update documentation"
        ELSE "General code changes"

ExtractIntent(input) ==
    LET lowerInput == ToLowerCase(input)
    IN
        IF  \/ Includes(lowerInput, <<"a", "d", "d">>)
            \/ Includes(lowerInput, <<"c", "r", "e", "a", "t", "e">>)
            \/ Includes(lowerInput, <<"n", "e", "w">>)
        THEN "Create/Add new functionality"
        ELSE IF \/ Includes(lowerInput, <<"m", "o", "d", "i", "f", "y">>)
                \/ Includes(lowerInput, <<"c", "h", "a", "n", "g", "e">>)
                \/ Includes(lowerInput, <<"u", "p", "d", "a", "t", "e">>)
        THEN "Modify existing functionality"
        ELSE IF \/ Includes(lowerInput, <<"f", "i", "x">>)
                \/ Includes(lowerInput, <<"b", "u", "g">>)
                \/ Includes(lowerInput, <<"e", "r", "r", "o", "r">>)
        THEN "Fix bugs or errors"
        ELSE IF \/ Includes(lowerInput, <<"r", "e", "m", "o", "v", "e">>)
                \/ Includes(lowerInput, <<"d", "e", "l", "e", "t", "e">>)
                \/ Includes(lowerInput, <<"c", "l", "e", "a", "n">>)
        THEN "Remove/Delete functionality"
        ELSE IF \/ Includes(lowerInput, <<"r", "e", "f", "a", "c", "t", "o", "r">>)
                \/ Includes(lowerInput, <<"i", "m", "p", "r", "o", "v", "e">>)
                \/ Includes(lowerInput, <<"o", "p", "t", "i", "m", "i", "z", "e">>)
        THEN "Refactor/Improve code"
        ELSE IF \/ Includes(lowerInput, <<"t", "e", "s", "t">>)
                \/ Includes(lowerInput, <<"t", "e", "s", "t", "i", "n", "g">>)
        THEN "Add or modify tests"
        ELSE IF \/ Includes(lowerInput, <<"d", "o", "c", "u", "m", "e", "n", "t">>)
                \/ Includes(lowerInput, <<"c", "o", "m", "m", "e", "n", "t">>)
                \/ Includes(lowerInput, <<"r", "e", "a", "d", "m", "e">>)
        THEN "Add or update documentation"
        ELSE "General code changes"

(***************************************************************************)
(* Runs of extractIntent on bounded inputs.                                *)
(***************************************************************************)
MaxWords == 2

\* Words of a request: the trigger words of every group in several cases,
\* words with none, and words that hold a trigger word inside (latest,
\* prefix, renewal).
IntentWords ==
    { <<"A", "d", "d">>, <<"c", "r", "e", "a", "t", "e">>, <<"N", "E", "W">>,
      <<"m", "o", "d", "i", "f", "y">>, <<"C", "h", "a", "n", "g", "e">>, <<"u", "p", "d", "a", "t", "e">>,
      <<"F", "i", "x">>, <<"b", "u", "g">>, <<"e", "r", "r", "o", "r">>,
      <<"r", "e", "m", "o", "v", "e">>, <<"D", "E", "L", "E", "T", "E">>, <<"c", "l", "e", "a", "n">>,
      <<"r", "e", "f", "a", "c", "t", "o", "r">>, <<"i", "m", "p", "r", "o", "v", "e">>, <<"O", "p", "t", "i", "m", "i", "z", "e">>,
      <<"t", "e", "s", "t">>, <<"t", "e", "s", "t", "i", "n", "g">>, <<"d", "o", "c", "u", "m", "e", "n", "t">>,
      <<"C", "o", "m", "m", "e", "n", "t">>, <<"r", "e", "a", "d", "m", "e">>, <<"t", "h", "e">>,
      <<"c", "r", "a", "s", "h">>, <<"p", "a", "g", "e">>, <<"l", "a", "t", "e", "s", "t">>,
      <<"p", "r", "e", "f", "i", "x">>, <<"r", "e", "n", "e", "w", "a", "l">> }

Space == <<" ">>

\* Up to MaxWords words separated by spaces.
WordTexts ==
    {Flatten([m \in 1..Len(w) |-> IF m = 1 THEN w[m] ELSE Space \o w[m]]) :
        w \in SeqsUpTo(IntentWords, MaxWords)}

\* "Add a new login page" and "Fix the crash on add".
ExampleTexts ==
    { <<"A", "d", "d", " ", "a", " ", "n", "e", "w", " ", "l", "o", "g", "i", "n", " ", "p", "a", "g", "e">>,
      <<"F", "i", "x", " ", "t", "h", "e", " ", "c", "r", "a", "s", "h", " ", "o", "n", " ", "a", "d", "d">> }

IntentTexts == WordTexts \cup ExampleTexts

InitIntent ==
    /\ ExecIdle
    /\ userInput \in IntentTexts
    /\ referencedFiles = <<>>
    /\ allFiles = <<>>
    /\ keywords = <<>>
    /\ relevantFiles = <<>>
    /\ fpc = "text"
    /\ IntentIdle
    /\ ParseIdle
    /\ CallIdle
    /\ FlowIdle
    /\ AuxIdle

ExtractIntentCall ==
    /\ fpc = "text"
    /\ intent' = ExtractIntent(userInput)
    /\ fpc' = "intent"
    /\ UNCHANGED <<userInput, referencedFiles, allFiles, keywords, relevantFiles>>
    /\ UNCHANGED <<execVars, parseVars, callVars>>
    /\ UNCHANGED <<flowVars, auxVars>>

SpecIntent == InitIntent /\ [][ExtractIntentCall]_vars

(***************************************************************************)
(* parsePlanResponse, lines 385-409.                                       *)
(***************************************************************************)
NoMatch == [found |-> FALSE, from |-> 0, to |-> 0]

\* A plausible slip: a lazy pattern, which stops at the first closing brace.
MatchBracesLazy(raw) ==
    LET opens  == {k \in 1..Len(raw) : IsPunct(raw[k], "{")}
        from   == CHOOSE k \in opens : \A m \in opens : k <= m
        closes == {k \in (from + 1)..Len(raw) : IsPunct(raw[k], "}")}
    IN  IF opens = {} THEN NoMatch
        ELSE IF closes = {} THEN NoMatch
        ELSE [found |-> TRUE, from |-> from,
              to |-> CHOOSE k \in closes : \A m \in closes : k <= m]

\* llmResponse.match(/\{[\s\S]*\}/): from the first opening brace to the last
\* closing brace after it.
MatchBraces(raw) ==
    LET opens  == {k \in 1..Len(raw) : IsPunct(raw[k], "{")}
        from   == CHOOSE k \in opens : \A m \in opens : k <= m
        closes == {k \in (from + 1)..Len(raw) : IsPunct(raw[k], "}")}
    IN  IF opens = {} THEN NoMatch
        ELSE IF closes = {} THEN NoMatch
        ELSE [found |-> TRUE, from |-> from,
              to |-> CHOOSE k \in closes : \A m \in closes : m <= k]

Thrown(msg) == JValue("thrown", msg, 0, <<>>, <<>>)

\* A plausible slip: the steps are validated too, each having to be an
\* object with a step number.
ValidPlanWithNumberedSteps(parsed) ==
    /\ Truthy(Get(parsed, Str("summary")))
    /\ Truthy(Get(parsed, Str("steps")))
    /\ IsArray(Get(parsed, Str("steps")))
    /\ \A k \in 1..Len(Get(parsed, Str("steps")).v) :
          Get(Get(parsed, Str("steps")).v[k], Str("step")).type = "number"

\* Line 398, negated: !plan.summary || !plan.steps || !Array.isArray(plan.steps)
ValidPlan(parsed) ==
    /\ Truthy(Get(parsed, Str("summary")))
    /\ Truthy(Get(parsed, Str("steps")))
    /\ IsArray(Get(parsed, Str("steps")))

\* The try block, lines 386-403: the plan, or what is thrown.
ParsePlanTry(raw) ==
    LET jsonMatch == MatchBraces(raw)
        parsed    == ParseSpan(raw, jsonMatch.from, jsonMatch.to)
    IN  IF ~jsonMatch.found THEN Thrown(<<"No JSON found in response">>)
        ELSE IF parsed = Invalid THEN Thrown(<<"SyntaxError">>)
        ELSE IF ~ValidPlan(parsed)
        THEN Thrown(<<"Invalid plan structure">>)
        ELSE parsed

\* A plausible slip: the error is passed on instead of being caught.
ParsePlanResponseRethrow(raw) == ParsePlanTry(raw)

\* The catch block, lines 404-408: whatever was thrown, return null.
ParsePlanResponse(raw) ==
    LET r == ParsePlanTry(raw)
    IN  IF r.type = "thrown" THEN JNull ELSE r

(***************************************************************************)
(* Runs of parsePlanResponse on bounded inputs: the serialization of a     *)
(* plan of the schema the system prompt fixes (generatePlanPrompts), or a  *)
(* malformed document, with or without surrounding prose and fences.       *)
(***************************************************************************)
MaxPlanSteps == 1

\* Lists joined by commas.
Join(seqs) ==
    Flatten([r \in 1..Len(seqs) |-> IF r = 1 THEN seqs[r] ELSE <<Punct(",")>> \o seqs[r]])

\* The JSON text of a value, as the generator is told to write it.
RECURSIVE Stringify(_)
Stringify(val) ==
    CASE val.type = "string" -> <<StrTok(val.s)>>
      [] val.type = "number" -> <<NumTok(val.n)>>
      [] val.type = "boolean" -> <<LitTok(val.s[1])>>
      [] val.type = "null" -> <<LitTok("null")>>
      [] val.type = "array" ->
            <<Punct("[")>> \o Join([r \in 1..Len(val.v) |-> Stringify(val.v[r])])
                           \o <<Punct("]")>>
      [] val.type = "object" ->
            <<Punct("{")>>
                \o Join([r \in 1..Len(val.m) |->
                            <<StrTok(val.m[r].key), Punct(":")>> \o Stringify(val.m[r].value)])
                \o <<Punct("}")>>

StringArray(strs) == JArray([r \in 1..Len(strs) |-> JString(strs[r])])

\* A step of the schema.
StepValue(n, files) ==
    JObject(<< Member(Str("step"), JNumber(n)),
               Member(Str("action"), JString(Str("act"))),
               Member(Str("description"), JString(Str("desc"))),
               Member(Str("files"), StringArray(files)),
               Member(Str("reasoning"), JString(Str("why"))) >>)

\* A plan of the schema.
PlanValue(summary, stepFiles, complexity, prerequisites) ==
    JObject(<< Member(Str("summary"), JString(summary)),
               Member(Str("steps"), JArray([k \in 1..Len(stepFiles) |-> StepValue(k, stepFiles[k])])),
               Member(Str("estimatedComplexity"), JString(complexity)),
               Member(Str("prerequisites"), StringArray(prerequisites)),
               Member(Str("risks"), StringArray(<<>>)) >>)

SchemaPlans ==
    {PlanValue(summary, stepFiles, complexity, prerequisites) :
        summary \in {Str("x"), EmptyStr},
        stepFiles \in SeqsUpTo({<<>>, <<PathA>>, <<PathB, PathB>>}, MaxPlanSteps),
        complexity \in {Str("low"), Str("high")},
        prerequisites \in {<<>>, <<Str("node")>>}}

\* Documents parsePlanResponse has to reject, and one it accepts although
\* its only step is null.
OtherDocuments ==
    { <<Prose("not json at all")>>,
      <<>>,
      <<Punct("}"), Prose("then"), Punct("{")>>,
      <<Punct("{"), Punct("}")>>,
      Stringify(JObject(<<Member(Str("steps"), JArray(<<>>))>>)),
      Stringify(JObject(<<Member(Str("summary"), JString(Str("x")))>>)),
      Stringify(JObject(<<Member(Str("summary"), JNumber(0)), Member(Str("steps"), JArray(<<>>))>>)),
      Stringify(JObject(<<Member(Str("summary"), JNull), Member(Str("steps"), JArray(<<>>))>>)),
      Stringify(JObject(<<Member(Str("summary"), JString(Str("x"))), Member(Str("steps"), JNull)>>)),
      Stringify(JObject(<<Member(Str("summary"), JString(Str("x"))), Member(Str("steps"), JObject(<<>>))>>)),
      Stringify(JObject(<<Member(Str("summary"), JString(Str("x"))), Member(Str("steps"), JNumber(3))>>)),
      Stringify(JObject(<<Member(Str("summary"), JString(Str("x"))), Member(Str("steps"), JString(Str("one")))>>)),
      Stringify(JObject(<<Member(Str("summary"), JBool(TRUE)), Member(Str("steps"), JArray(<<JNull>>))>>)),
      <<Punct("{"), StrTok(Str("summary")), Punct(":"), StrTok(Str("x")), Punct(","),
        StrTok(Str("steps")), Punct(":"), Punct("["), Punct("}")>>,
      <<Punct("{"), StrTok(Str("summary")), Punct(":"), StrTok(Str("x")),
        StrTok(Str("steps")), Punct(":"), Punct("["), Punct("]"), Punct("}")>>,
      <<Punct("{"), StrTok(Str("summary")), StrTok(Str("x")), Punct("}")>>,
      <<Punct("{"), Prose("summary"), Punct(":"), StrTok(Str("x")), Punct(","),
        StrTok(Str("steps")), Punct(":"), Punct("["), Punct("]"), Punct("}")>> }

\* A step with only the given number and action.
BareStep(n, action) ==
    JObject(<<Member(Str("step"), JNumber(n)), Member(Str("action"), JString(action))>>)

\* Documents with a truthy summary and an array of steps whose shape is not
\* that of the schema: step numbers twice and decreasing, steps without
\* number, files, action or reasoning, steps that are no objects, and the
\* other fields of a plan missing or of another type.
LooseDocuments ==
    { Stringify(JObject(<<Member(Str("summary"), JString(Str("x"))),
                          Member(Str("steps"), JArray(<<BareStep(2, Str("act")),
                                                       BareStep(2, Str("act")),
                                                       BareStep(1, Str("act"))>>))>>)),
      Stringify(JObject(<<Member(Str("summary"), JString(Str("x"))),
                          Member(Str("steps"), JArray(<<JObject(<<>>),
                                                       JString(Str("one")),
                                                       JNumber(3)>>))>>)),
      Stringify(JObject(<<Member(Str("summary"), JNumber(1)),
                          Member(Str("steps"), JArray(<<>>)),
                          Member(Str("estimatedComplexity"), JNumber(3)),
                          Member(Str("risks"), JNull)>>)),
      Stringify(JObject(<<Member(Str("summary"), JString(Str("x"))),
                          Member(Str("steps"), JArray(<<BareStep(1, Str("act")),
                                                       BareStep(1, Str("act"))>>)),
                          Member(Str("estimatedComplexity"), JString(Str("low"))),
                          Member(Str("prerequisites"), JArray(<<>>)),
                          Member(Str("risks"), JArray(<<>>))>>)) }

Documents == {Stringify(p) : p \in SchemaPlans} \cup OtherDocuments \cup LooseDocuments

\* What may stand before a document: nothing, prose and an opening fence, or
\* prose with braces in it.
TextsBefore ==
    { <<>>,
      <<Prose("Here is the plan:"), Fence(FenceOpen)>>,
      <<Prose("fill"), Punct("{"), Prose("name"), Punct("}"), Prose("in:")>> }

\* What may stand after it: nothing, a closing fence, a fence and prose, or
\* prose with a closing brace in it.
TextsAfter ==
    { <<>>,
      <<Fence(FenceClose)>>,
      <<Fence(FenceClose), Prose("Shall I run it?")>>,
      <<Prose("done"), Punct("}")>> }

RawTexts ==
    {before \o doc \o after : before \in TextsBefore, doc \in Documents, after \in TextsAfter}

InitParse ==
    /\ ExecIdle
    /\ FilterIdle
    /\ IntentIdle
    /\ llmResponse \in RawTexts
    /\ parsedPlan = Undefined
    /\ CallIdle
    /\ FlowIdle
    /\ AuxIdle

ParsePlanResponseCall ==
    /\ fpc = "idle"
    /\ parsedPlan = Undefined
    /\ parsedPlan' = ParsePlanResponse(llmResponse)
    /\ UNCHANGED <<llmResponse, intentVars, filterVars, execVars, callVars>>
    /\ UNCHANGED <<flowVars, auxVars>>

SpecParse == InitParse /\ [][ParsePlanResponseCall]_vars

(***************************************************************************)
(* Runs of callOpenRouter.                                                 *)
(***************************************************************************)
InitCall ==
    /\ ExecQuiet
    /\ apiKey \in BOOLEAN
    /\ FilterIdle
    /\ IntentIdle
    /\ ParseIdle
    /\ cpc = "call"
    /\ requests = 0
    /\ reply = NoReply
    /\ callOutcome = NoOutcome
    /\ FlowIdle
    /\ AuxIdle

\* Lines 502-539: the key check, the request body, the call of fetch.
CallOpenRouter ==
    /\ cpc = "call"
    /\ IF KeyConfigured(apiKey)
       THEN /\ requests' = requests + 1
            /\ callOutcome' = callOutcome
            /\ cpc' = "fetch"
       ELSE /\ requests' = requests
            /\ callOutcome' =
                  Throws(NewError(Str("GEMINI_API_KEY environment variable is not set")))
            /\ cpc' = "done"
    /\ UNCHANGED <<reply, execVars, filterVars, intentVars, parseVars>>
    /\ UNCHANGED <<flowVars, auxVars>>

\* Lines 541-563: fetch has settled.
FetchSettles ==
    /\ cpc = "fetch"
    /\ \E r \in Replies :
          /\ reply' = r
          /\ callOutcome' = CallSettled(r)
    /\ cpc' = "done"
    /\ UNCHANGED <<requests, execVars, filterVars, intentVars, parseVars>>
    /\ UNCHANGED <<flowVars, auxVars>>

SpecCall == InitCall /\ [][CallOpenRouter \/ FetchSettles]_vars

(***************************************************************************)
(* generateAndDisplayPlan, index.ts lines 219-279: the prompts, the LLM    *)
(* call, the parse, the display, the confirmation and the execution, all   *)
(* inside one try block whose catch prints the error.                      *)
(***************************************************************************)
\* value.length, for the values that have one.
LengthOf(val) ==
    CASE val.type = "array" -> Len(val.v)
      [] val.type = "string" -> Len(val.s)
      [] OTHER -> 0

\* `list.length > 0` followed by list.forEach or list.join raises a
\* TypeError on null and undefined, and on a non-empty string.
ListRaises(val) == IsNullish(val) \/ (val.type = "string" /\ LengthOf(val) > 0)

\* formatPlan, api.ts lines 441-477: the text, or the TypeError raised by
\* toUpperCase of something that is not a string, by the length of a missing
\* list, by a field of a null step, or by join on files that are no array.
FormatPlan(p) ==
    LET steps == Get(p, Str("steps")).v
    IN  IF \/ Get(p, Str("estimatedComplexity")).type # "string"
           \/ ListRaises(Get(p, Str("prerequisites")))
           \/ ListRaises(Get(p, Str("risks")))
           \/ \E k \in 1..Len(steps) :
                 \/ IsNullish(steps[k])
                 \/ /\ Truthy(Get(steps[k], Str("files")))
                    /\ Get(steps[k], Str("files")).type = "string"
        THEN Throws(NewError(Str("TypeError")))
        ELSE Returned(<<"Execution Plan">> \o Get(p, Str("summary")).s)

\* The step executeStep receives for an entry of the parsed steps.
StepOf(st) ==
    LET files == Get(st, Str("files"))
    IN  IF st.type = "null" THEN NullStep
        ELSE ObjStep(Get(st, Str("step")).n,
                     IF ~Truthy(files) THEN "absent"
                     ELSE IF files.type = "array" THEN "array"
                     ELSE "number",
                     IF files.type = "array"
                     THEN [r \in 1..Len(files.v) |-> files.v[r].s]
                     ELSE <<>>)

\* The plan executePlan receives; it does not read the summary.
PlanOf(p) ==
    LET steps == Get(p, Str("steps")).v
    IN  [summary |-> "x", steps |-> [k \in 1..Len(steps) |-> StepOf(steps[k])]]

\* What the upstream may do with the plan request: answer with one of the
\* raw texts, or fail.
FlowReplies ==
    {Response(200, EmptyStr, AnswerData(TextPart(JString(raw)))) : raw \in RawTexts}
        \cup { Response(429, Str("quota exceeded"), JNull),
               Response(200, EmptyStr, AnswerData(JObject(<<>>))),
               [kind |-> "rejectError", status |-> 0, body |-> Str("fetch failed"),
                data |-> Undefined] }

\* A plausible slip: the answer to the prompt is not looked at.
ProceedsAlways(answer) == TRUE

\* Line 254: !executeAnswer.execute is false.
Proceeds(answer) == answer

\* What the catch block prints, lines 270-278.
Reported(err) == <<"Error during execution: ">> \o StepMessage(err)

InitFlow ==
    /\ plan = [summary |-> "x", steps |-> <<>>]
    /\ continueOnError = FALSE
    /\ apiKey \in BOOLEAN
    /\ \E disk \in Disks : fs = disk.f /\ dirs = disk.d
    /\ pc = "idle"
    /\ i = 0
    /\ j = 0
    /\ fileExists = FALSE
    /\ currentContent = <<>>
    /\ content = <<>>
    /\ result = NoResult
    /\ error = NoError
    /\ results = NoResults
    /\ ops = <<>>
    /\ attempted = <<>>
    /\ FilterIdle
    /\ IntentIdle
    /\ ParseIdle
    /\ CallIdle
    /\ gpc = "start"
    /\ executeAnswer = "none"
    /\ shown = <<>>
    /\ AuxIdle

\* Lines 221-227: the prompts are built and callOpenRouter is called; it
\* checks the key and sends the request.
GenerateAndDisplayPlan ==
    /\ gpc = "start"
    /\ IF KeyConfigured(apiKey)
       THEN /\ requests' = requests + 1
            /\ cpc' = "fetch"
            /\ gpc' = "call"
            /\ UNCHANGED <<callOutcome, shown>>
       ELSE /\ callOutcome' =
                  Throws(NewError(Str("GEMINI_API_KEY environment variable is not set")))
            /\ cpc' = "done"
            /\ gpc' = "reported"
            /\ shown' = Reported(callOutcome'.error)
            /\ UNCHANGED requests
    /\ UNCHANGED <<reply, executeAnswer, execVars, filterVars, intentVars, parseVars>>
    /\ UNCHANGED auxVars

\* Lines 227-241: callOpenRouter settles; its text is parsed; the raw
\* response is shown when there is no plan, the formatted plan otherwise.
PlanReply ==
    /\ gpc = "call"
    /\ \E r \in FlowReplies :
          /\ reply' = r
          /\ callOutcome' = CallSettled(r)
    /\ cpc' = "done"
    /\ IF callOutcome'.kind = "thrown"
       THEN /\ gpc' = "reported"
            /\ shown' = Reported(callOutcome'.error)
            /\ UNCHANGED parseVars
       ELSE /\ llmResponse' = callOutcome'.content
            /\ parsedPlan' = ParsePlanResponse(llmResponse')
            /\ IF parsedPlan' = JNull
               THEN /\ gpc' = "rawShown"
                    /\ shown' = <<"Raw response:">> \o llmResponse'
               ELSE IF FormatPlan(parsedPlan').kind = "thrown"
               THEN /\ gpc' = "reported"
                    /\ shown' = Reported(FormatPlan(parsedPlan').error)
               ELSE /\ gpc' = "prompt"
                    /\ shown' = FormatPlan(parsedPlan').content
    /\ UNCHANGED <<requests, executeAnswer, execVars, filterVars, intentVars>>
    /\ UNCHANGED auxVars

\* Lines 245-261: the user answers; on yes executePlan is called with the
\* plan, the working directory and continueOnError false.
Confirm ==
    /\ gpc = "prompt"
    /\ \E answer \in BOOLEAN :
          /\ executeAnswer' = IF answer THEN "yes" ELSE "no"
          /\ IF Proceeds(answer)
             THEN /\ plan' = PlanOf(parsedPlan)
                  /\ continueOnError' = FALSE
                  /\ pc' = "start"
                  /\ gpc' = "executing"
                  /\ UNCHANGED shown
             ELSE /\ gpc' = "cancelled"
                  /\ shown' = <<"Execution cancelled. Plan was not applied.">>
                  /\ UNCHANGED <<plan, continueOnError, pc>>
    /\ UNCHANGED <<apiKey, fs, dirs, i, j, fileExists, currentContent, content, result,
                   error, results, ops, attempted>>
    /\ UNCHANGED <<filterVars, intentVars, parseVars, callVars>>
    /\ UNCHANGED auxVars

\* Lines 264-278: executePlan has returned and the summary is printed, or
\* it has raised and the catch block prints the error.
Summary ==
    /\ gpc = "executing"
    /\ pc \in {"returned", "raised"}
    /\ IF pc = "returned"
       THEN /\ gpc' = "done"
            /\ shown' = IF Len(results.failedSteps) = 0
                        THEN <<"All steps completed successfully!">>
                        ELSE <<"Execution completed with ", ToString(Len(results.failedSteps)),
                               " failed step(s).">>
       ELSE /\ gpc' = "reported"
            /\ shown' = Reported(NewError(Str("TypeError")))
    /\ UNCHANGED <<executeAnswer, execVars, filterVars, intentVars, parseVars, callVars>>
    /\ UNCHANGED auxVars

FlowNext ==
    \/ GenerateAndDisplayPlan
    \/ PlanReply
    \/ Confirm
    \/ ExecutePlan
    \/ ExecuteStep
    \/ BeginFile
    \/ LLMReturn
    \/ WriteFile
    \/ StepResult
    \/ Return
    \/ Summary

SpecFlow == InitFlow /\ [][FlowNext]_vars

(***************************************************************************)
(* Runs of executePlan next to a process outside the tool that writes a    *)
(* file of the project while the executor is busy with a file: between     *)
(* existsSync (api.ts line 598) and writeFileSync (lines 676, 735) the     *)
(* executor holds no lock on the path.                                     *)
(***************************************************************************)
MaxRaceSteps == 1

MaxExternal == 1

ExternalContent == <<"ext">>

InitRace ==
    /\ Init
    /\ Len(plan.steps) <= MaxRaceSteps

\* The other process writes a file, making its directory.
ExternalWrite ==
    /\ pc \in {"file", "llm", "write"}
    /\ Len(external) < MaxExternal
    /\ \E p \in DOMAIN fs :
          /\ fs' = [fs EXCEPT ![p] = File(ExternalContent)]
          /\ dirs' = dirs \cup {Dirname(p)}
          /\ external' = Append(external, [path |-> p, after |-> Len(ops)])
    /\ UNCHANGED <<plan, continueOnError, apiKey, pc, i, j, fileExists, currentContent,
                   content, result, error, results, ops, attempted>>
    /\ UNCHANGED <<filterVars, intentVars, parseVars, callVars, flowVars>>
    /\ UNCHANGED <<pollVars, editVars>>

RaceNext ==
    \/ ExecutePlan
    \/ ExecuteStep
    \/ BeginFile
    \/ LLMReturn
    \/ WriteFile
    \/ StepResult
    \/ Return
    \/ ExternalWrite

SpecRace == InitRace /\ [][RaceNext]_vars

(***************************************************************************)
(* Properties of the relevance filter.                                     *)
(***************************************************************************)
Min(a, b) == IF a < b THEN a ELSE b

\* C9: the sequence filterRelevantFiles returns has at most 20 entries,
\* holds no path twice, and starts with the first min(20, len) entries of
\* referencedFiles.
C9_FilterContract ==
    fpc = "filtered" =>
        /\ Len(relevantFiles) <= 20
        /\ \A m, n \in 1..Len(relevantFiles) :
              m # n => relevantFiles[m] # relevantFiles[n]
        /\ LET k == Min(20, Len(referencedFiles))
           IN  /\ Len(relevantFiles) >= k
               /\ SubSeq(relevantFiles, 1, k) = SubSeq(referencedFiles, 1, k)

\* C10: extractKeywords returns at most 10 tokens, each longer than 2
\* characters and none a stop word.
C10_KeywordsBounded ==
    fpc = "keywords" =>
        /\ Len(keywords) <= 10
        /\ \A n \in 1..Len(keywords) :
              /\ Len(keywords[n]) > 2
              /\ keywords[n] \notin CommonWords

\* C10 witness: a text with a stop word, a two-letter word and more than 10
\* other words, of which 10 were returned.
C10_Witness ==
    /\ fpc = "keywords"
    /\ Len(keywords) = 10
    /\ LET tokens == Split(ToLowerCase(userInput))
       IN  /\ \E n \in 1..Len(tokens) : tokens[n] \in CommonWords /\ Len(tokens[n]) > 2
           /\ \E n \in 1..Len(tokens) : Len(tokens[n]) = 2 /\ tokens[n] \notin CommonWords
           /\ Cardinality({n \in 1..Len(tokens) :
                              Len(tokens[n]) > 2 /\ tokens[n] \notin CommonWords}) > 10

(***************************************************************************)
(* Properties of the intent classifier.                                    *)
(***************************************************************************)
\* The trigger-word groups in the order create, modify, fix, remove,
\* refactor, test, doc, each with its label.
C11_Groups ==
    << [words |-> {<<"a", "d", "d">>, <<"c", "r", "e", "a", "t", "e">>, <<"n", "e", "w">>},
        label |-> "Create/Add new functionality"],
       [words |-> {<<"m", "o", "d", "i", "f", "y">>, <<"c", "h", "a", "n", "g", "e">>, <<"u", "p", "d", "a", "t", "e">>},
        label |-> "Modify existing functionality"],
       [words |-> {<<"f", "i", "x">>, <<"b", "u", "g">>, <<"e", "r", "r", "o", "r">>},
        label |-> "Fix bugs or errors"],
       [words |-> {<<"r", "e", "m", "o", "v", "e">>, <<"d", "e", "l", "e", "t", "e">>, <<"c", "l", "e", "a", "n">>},
        label |-> "Remove/Delete functionality"],
       [words |-> {<<"r", "e", "f", "a", "c", "t", "o", "r">>, <<"i", "m", "p", "r", "o", "v", "e">>, <<"o", "p", "t", "i", "m", "i", "z", "e">>},
        label |-> "Refactor/Improve code"],
       [words |-> {<<"t", "e", "s", "t">>, <<"t", "e", "s", "t", "i", "n", "g">>},
        label |-> "Add or modify tests"],
       [words |-> {<<"d", "o", "c", "u", "m", "e", "n", "t">>, <<"c", "o", "m", "m", "e", "n", "t">>, <<"r", "e", "a", "d", "m", "e">>},
        label |-> "Add or update documentation"] >>

\* C11: extractIntent returns the label of the first group, in the order
\* create, modify, fix, remove, refactor, test, doc, that has a trigger word
\* occurring in the lowercased text, and "General code changes" when no group
\* has one; "Fix the crash on add" is classified "Create/Add new
\* functionality".
C11_FirstGroupWins ==
    fpc = "intent" =>
        LET low    == ToLowerCase(userInput)
            Hit(g) == \E w \in C11_Groups[g].words : Includes(low, w)
            hits   == {g \in 1..Len(C11_Groups) : Hit(g)}
        IN  /\ hits = {} => intent = "General code changes"
            /\ \A g \in hits : (\A h \in hits : g <= h) => intent = C11_Groups[g].label
            /\ userInput = <<"F", "i", "x", " ", "t", "h", "e", " ", "c", "r", "a", "s", "h", " ", "o", "n", " ", "a", "d", "d">>
                  => intent = "Create/Add new functionality"

\* C11 witness: "Fix the crash on add", which hits the create group and the
\* fix group, has been classified.
C11_Witness ==
    /\ fpc = "intent"
    /\ userInput = <<"F", "i", "x", " ", "t", "h", "e", " ", "c", "r", "a", "s", "h", " ", "o", "n", " ", "a", "d", "d">>
    /\ intent = "Create/Add new functionality"

(***************************************************************************)
(* Properties of the plan parser.                                          *)
(***************************************************************************)
\* The document '{"steps":[]}'.
C12_StepsOnly ==
    <<Punct("{"), StrTok(Str("steps")), Punct(":"), Punct("["), Punct("]"), Punct("}")>>

\* C12: parsePlanResponse never raises, and it returns null for every raw
\* text that has no opening brace followed by a closing brace, whose span
\* from the first opening brace to the last closing brace is not valid JSON,
\* whose summary is missing or falsy, or whose steps is missing or not an
\* array; 'not json at all' and '{"steps":[]}' both give null.
C12_RejectsWithoutRaising ==
    parsedPlan.type # "undefined" =>
        LET raw     == llmResponse
            opens   == {k \in 1..Len(raw) : IsPunct(raw[k], "{")}
            closes  == {k \in 1..Len(raw) : IsPunct(raw[k], "}")}
            NoSpan  == ~\E a \in opens, b \in closes : a < b
            first   == CHOOSE a \in opens : \A k \in opens : a <= k
            last    == CHOOSE b \in closes : \A k \in closes : k <= b
            doc     == JsonParse(SubSeq(raw, first, last))
            summary == Get(doc, Str("summary"))
            steps   == Get(doc, Str("steps"))
            Falsy(val) == \/ val.type \in {"undefined", "null"}
                          \/ val = JString(EmptyStr)
                          \/ val = JNumber(0)
                          \/ val = JBool(FALSE)
        IN  /\ parsedPlan.type # "thrown"
            /\ NoSpan => parsedPlan = JNull
            /\ (~NoSpan /\ doc.type = "invalid") => parsedPlan = JNull
            /\ (~NoSpan /\ Falsy(summary)) => parsedPlan = JNull
            /\ (~NoSpan /\ steps.type # "array") => parsedPlan = JNull
            /\ raw = <<Prose("not json at all")>> => parsedPlan = JNull
            /\ raw = C12_StepsOnly => parsedPlan = JNull

\* C12 witness: '{"steps":[]}' has been parsed, to null.
C12_Witness ==
    /\ llmResponse = C12_StepsOnly
    /\ parsedPlan = JNull

\* C13 as stated: for every plan of the schema, parsePlanResponse applied
\* to its serialization, bare or surrounded by prose or fence markers,
\* returns a plan equal to it.
C13_RoundTrip ==
    parsedPlan.type # "undefined" =>
        \A p \in SchemaPlans, before \in TextsBefore, after \in TextsAfter :
            llmResponse = before \o Stringify(p) \o after => parsedPlan = p

\* C13 amended: for every plan of the schema whose summary is not empty,
\* parsePlanResponse applied to its serialization, bare or surrounded by
\* prose or fence markers with no opening brace before the document and no
\* closing brace after it, returns a plan equal to it.
C13_RoundTripNonEmptySummary ==
    parsedPlan.type # "undefined" =>
        \A p \in SchemaPlans :
            LET document == Stringify(p)
            IN  \A before \in TextsBefore, after \in TextsAfter :
                    (/\ Get(p, Str("summary")) # JString(EmptyStr)
                     /\ \A k \in 1..Len(before) : ~IsPunct(before[k], "{")
                     /\ \A k \in 1..Len(after) : ~IsPunct(after[k], "}")
                     /\ llmResponse = before \o document \o after)
                    => parsedPlan = p

\* C13 witness: a plan with a step that lists a file, written between prose
\* and fences, has been parsed to itself.
C13_Witness ==
    /\ parsedPlan.type = "object"
    /\ Len(Get(parsedPlan, Str("steps")).v) = 1
    /\ Len(Get(Get(parsedPlan, Str("steps")).v[1], Str("files")).v) > 0
    /\ llmResponse[1].kind = "prose"
    /\ llmResponse[Len(llmResponse)].kind = "prose"
    /\ llmResponse = <<Prose("Here is the plan:"), Fence(FenceOpen)>>
                        \o Stringify(parsedPlan)
                        \o <<Fence(FenceClose), Prose("Shall I run it?")>>

(***************************************************************************)
(* Properties of the LLM client.                                           *)
(***************************************************************************)
\* C14: when no API key is configured, callOpenRouter throws the
\* configuration error and no request is sent in that call.
C14_NoKeyNoRequest ==
    ~apiKey =>
        /\ requests = 0
        /\ cpc # "fetch"
        /\ cpc = "done" =>
              /\ callOutcome.kind = "thrown"
              /\ callOutcome.error.isError
              /\ callOutcome.error.message =
                    <<"GEMINI_API_KEY environment variable is not set">>

\* C14 witness: a call without a key has ended.
C14_Witness ==
    /\ ~apiKey
    /\ cpc = "done"
    /\ callOutcome.kind = "thrown"

\* The document has a first candidate whose content has a first part with
\* a text field.
C15_HasTextField(data) ==
    /\ data.type = "object"
    /\ \E c \in 1..Len(data.m) :
          /\ data.m[c].key = <<"candidates">>
          /\ data.m[c].value.type = "array"
          /\ Len(data.m[c].value.v) > 0
          /\ LET first == data.m[c].value.v[1]
             IN  /\ first.type = "object"
                 /\ \E d \in 1..Len(first.m) :
                       /\ first.m[d].key = <<"content">>
                       /\ first.m[d].value.type = "object"
                       /\ \E e \in 1..Len(first.m[d].value.m) :
                             LET parts == first.m[d].value.m[e]
                             IN  /\ parts.key = <<"parts">>
                                 /\ parts.value.type = "array"
                                 /\ Len(parts.value.v) > 0
                                 /\ parts.value.v[1].type = "object"
                                 /\ \E f \in 1..Len(parts.value.v[1].m) :
                                       parts.value.v[1].m[f].key = <<"text">>

\* C15: callOpenRouter returns text only when the response has a success
\* status and carries the text field; on a non-success status it throws an
\* error whose message contains the status and the body, and on a success
\* response without the text field it throws and returns no text.
C15_ReturnsOnlyGoodText ==
    cpc = "done" /\ apiKey =>
        /\ callOutcome.kind \in {"returned", "thrown"}
        /\ callOutcome.kind = "returned" =>
              /\ reply.kind = "response"
              /\ reply.status \in 200..299
              /\ C15_HasTextField(reply.data)
              /\ callOutcome.content # <<>>
        /\ (reply.kind = "response" /\ reply.status \notin 200..299) =>
              /\ callOutcome.kind = "thrown"
              /\ callOutcome.error.isError
              /\ Contains(callOutcome.error.message, ToString(reply.status))
              /\ Includes(callOutcome.error.message, reply.body)
        /\ (reply.kind = "response" /\ ~C15_HasTextField(reply.data)) =>
              callOutcome.kind = "thrown"

\* C15 witness: a 429 response with a body and a document with text has
\* been turned into an error.
C15_Witness ==
    /\ cpc = "done"
    /\ apiKey
    /\ reply.kind = "response"
    /\ reply.status = 429
    /\ reply.body # <<>>
    /\ C15_HasTextField(reply.data)
    /\ callOutcome.kind = "thrown"

(***************************************************************************)
(* Properties of the executor: calls, order, results, disk.                *)
(***************************************************************************)
\* A history only grows: what was recorded stays, except that the last
\* attempt is given its outcome.
Grows(old, new) ==
    /\ Len(old) <= Len(new)
    /\ Len(old) > 1 => SubSeq(new, 1, Len(old) - 1) = SubSeq(old, 1, Len(old) - 1)

\* The number of operations of kind o made for the step at position k.
CountOps(o, k) == Cardinality({n \in 1..Len(ops) : ops[n].op = o /\ ops[n].idx = k})

FilesOf(k) ==
    IF ~plan.steps[k].isNull /\ plan.steps[k].filesKind = "array"
    THEN plan.steps[k].files
    ELSE <<>>

\* C16: nothing is retried.  A call of the LLM client sends at most one
\* request, whether it succeeds or fails; executePlan makes at most one call
\* per file of a step (exactly one for each file it got past), hands each
\* step to executeStep at most once, and once a step has failed nothing more
\* is done for it.  The calls of a step are counted when the step is done;
\* what the history holds of a step never changes afterwards.
C16_NothingRetried ==
    /\ [](pc = "stepDone" =>
            LET calls == CountOps("llm", i)
            IN  /\ CountOps("request", i) <= calls
                /\ calls <= Len(FilesOf(i)))
    /\ [](\A n \in 1..Len(attempted) : attempted[n].idx = n)
    /\ [](pc = "file" => CountOps("llm", i) = j - 1 /\ CountOps("request", i) = j - 1)
    /\ [](pc \in {"llm", "write"} => CountOps("llm", i) = j /\ CountOps("request", i) = j)
    /\ [][/\ Grows(ops, ops')
          /\ \A m \in (Len(ops) + 1)..Len(ops') : ops'[m].idx = i
          /\ Grows(attempted, attempted')
          /\ \A n \in 1..Len(attempted) :
                attempted[n].outcome = "failure"
                    => /\ \A m \in (Len(ops) + 1)..Len(ops') :
                             ops'[m].idx # attempted[n].idx
                       /\ Len(ops) > 0 => ops'[Len(ops)] = ops[Len(ops)]
                       /\ attempted'[n] = attempted[n]]_vars

\* C16 witness: a step failed at its second file on an error status of the
\* upstream, after one request for each of its two files, and a later step
\* has been executed.
C16_Witness ==
    /\ pc = "returned"
    /\ \E n \in 1..Len(attempted) :
          /\ attempted[n].outcome = "failure"
          /\ n < Len(attempted)
          /\ CountOps("request", attempted[n].idx) = 2
          /\ CountOps("write", attempted[n].idx) = 1

\* The operations of kind create or modify made for the step at position
\* k, in order.
Operations(k) ==
    SelectSeq(ops, LAMBDA o : o.idx = k /\ o.op \in {"create", "modify"})

Checks(k) == SelectSeq(ops, LAMBDA o : o.idx = k /\ o.op = "exists")

\* The last create or modify operation among the first n operations.
RECURSIVE OperationBefore(_)
OperationBefore(n) ==
    IF n = 0 THEN Op("none", 0, <<>>, <<>>)
    ELSE IF ops[n].op \in {"create", "modify"} THEN ops[n]
    ELSE OperationBefore(n - 1)

\* C18: within a step the paths are processed in their listed order; each
\* path is checked for existence at root/path when it is reached, and then
\* exactly one operation runs for it: modify (which reads the file and makes
\* no directory) when it exists at that moment, create (which reads
\* nothing) when it does not.  This is stated of each step when it is done;
\* what the history holds of a step never changes afterwards.
C18_InOrderOneOperationEach ==
    /\ [](pc = "stepDone" =>
            LET checks     == Checks(i)
                operations == Operations(i)
            IN  /\ Len(checks) <= Len(FilesOf(i))
                /\ Len(operations) = Len(checks)
                /\ \A n \in 1..Len(checks) :
                      /\ checks[n].path = FullPath(RootDir, FilesOf(i)[n])
                      /\ operations[n].path = FullPath(RootDir, FilesOf(i)[n]))
    /\ [](pc = "stepDone" => \A n \in OpsOfStep(i) :
            /\ ops[n].op = "read" =>
                  OperationBefore(n).op = "modify" /\ OperationBefore(n).path = ops[n].path
            /\ ops[n].op \in {"existsDir", "mkdir"} =>
                  /\ OperationBefore(n).op = "create"
                  /\ OperationBefore(n).idx = ops[n].idx
            /\ ops[n].op \in {"llm", "write"} =>
                  OperationBefore(n).path = ops[n].path /\ OperationBefore(n).idx = ops[n].idx)
    /\ [][/\ Len(ops) <= Len(ops')
          /\ SubSeq(ops', 1, Len(ops)) = ops
          /\ \A m \in (Len(ops) + 1)..Len(ops') : ops'[m].idx = i
          /\ i <= i']_vars
    /\ [][(pc = "file" /\ ops' # ops) =>
            LET n == Len(ops)
            IN  /\ SubSeq(ops', 1, n) = ops
                /\ ops'[n + 1] = Op("exists", i, CurrentPath, <<>>)
                /\ ops'[n + 2] = Op(IF fs[CurrentPath].exists THEN "modify" ELSE "create",
                                    i, CurrentPath, <<>>)
                /\ (fs[CurrentPath].exists /\ Len(ops') > n + 2) => ops'[n + 3].op = "read"
                /\ \A m \in (n + 3)..Len(ops') : ops'[m].op \notin {"exists", "create", "modify"}]_vars

\* C18 witness: a step listing a, d/b, d/b on a disk with a and without d/b
\* has modified a, created d/b and then modified d/b.
C18_Witness ==
    /\ pc = "returned"
    /\ \E k \in 1..Len(plan.steps) :
          /\ Len(Operations(k)) = 3
          /\ Operations(k)[1] = Op("modify", k, FullPath(RootDir, PathA), <<>>)
          /\ Operations(k)[2] = Op("create", k, FullPath(RootDir, PathB), <<>>)
          /\ Operations(k)[3] = Op("modify", k, FullPath(RootDir, PathB), <<>>)
          /\ CountOps("write", k) = 3

\* C19: a step with files succeeds if and only if every listed file was
\* created or modified without an error being raised; when an error is
\* raised the result is a failure whose message is the error's message, or
\* the error's string form when it is not an Error.
C19_SuccessIffNoError ==
    (/\ pc = "stepDone"
     /\ ~CurrentStep.isNull
     /\ CurrentStep.filesKind \in {"array", "number"}
     /\ ~NoFiles(CurrentStep)) =>
        /\ result.success <=>
              /\ error = NoError
              /\ Len(Operations(i)) = Len(FilesOf(i))
              /\ CountOps("write", i) = Len(FilesOf(i))
        /\ ~result.success =>
              /\ error # NoError
              /\ error.isError => result.message = error.message
              /\ ~error.isError => result.message = error.str

\* C19 witness: the second file of a step failed on a thrown value that is
\* not an Error, and the step's message is its string form.
C19_Witness ==
    /\ pc = "stepDone"
    /\ ~result.success
    /\ ~error.isError
    /\ result.message = <<"timeout">>
    /\ CountOps("write", i) = 1

\* C20: execution is not transactional.  The disk changes only by the write
\* of the answer for the current file; a failure changes nothing on the
\* disk, so no file written earlier in the step or in earlier steps gets
\* its previous content back; when the k-th file of a step fails the files
\* before it hold what was written for them and the files after it are
\* not checked, read or written.
C20_NoRollback ==
    /\ [](pc = "stepDone" /\ ~result.success /\ Len(FilesOf(i)) > 0 =>
            /\ Len(Checks(i)) = j
            /\ \A n \in 1..Len(ops) :
                  ops[n].idx = i /\ ops[n].op \in {"exists", "read", "llm", "write"}
                      => \E m \in 1..j : ops[n].path = FullPath(RootDir, FilesOf(i)[m])
            /\ CountOps("write", i) \in {j - 1, j}
            /\ \A m \in 1..(j - 1) :
                  fs[FullPath(RootDir, FilesOf(i)[m])] = File(<<"new">>))
    /\ [][/\ fs' # fs =>
                /\ pc = "write"
                /\ result' = NoResult \/ result'.success
                /\ fs' = [fs EXCEPT ![CurrentPath] = File(CleanContent(content))]
          /\ \A p \in DOMAIN fs :
                fs[p] = File(<<"new">>) => fs'[p] = File(<<"new">>)]_vars

\* C20 witness: the third file of a step failed after the first two were
\* written, in a plan whose earlier step had written files too, and the
\* files hold the written content.
C20_Witness ==
    /\ pc = "returned"
    /\ i > 1
    /\ ~result.success
    /\ j = 3
    /\ CountOps("write", i) = 2
    /\ CountOps("write", i - 1) = 3
    /\ \A p \in DOMAIN fs : fs[p] = File(<<"new">>)

\* The disk is one executePlan may start on, and nothing was done to it.
Untouched ==
    /\ ops = <<>>
    /\ \E disk \in Disks : fs = disk.f /\ dirs = disk.d

\* C17: in the generate-plan flow the executor runs only after the LLM call
\* returned, the plan parsed to a non-null plan and the user confirmed; when
\* the call fails, when the parse returns null (the raw response is then
\* shown) or when the user declines, executePlan is never invoked and no
\* file is created or modified.
C17_ExecutorOnlyAfterConfirmation ==
    /\ [](pc # "idle" =>
            /\ callOutcome.kind = "returned"
            /\ llmResponse = callOutcome.content
            /\ parsedPlan \notin {JNull, Undefined}
            /\ executeAnswer = "yes")
    /\ [](pc = "start" => plan = PlanOf(parsedPlan))
    /\ [](pc = "idle" => Untouched)
    /\ [](callOutcome.kind = "thrown" => pc = "idle" /\ gpc = "reported")
    /\ [](parsedPlan = JNull =>
            /\ pc = "idle"
            /\ gpc = "rawShown"
            /\ shown = <<"Raw response:">> \o callOutcome.content)
    /\ [](executeAnswer = "no" => pc = "idle" /\ gpc = "cancelled")
    /\ [][/\ (fs' # fs \/ dirs' # dirs \/ ops' # ops) =>
                gpc = "executing" /\ executeAnswer = "yes"
          /\ pc # "idle" => UNCHANGED <<plan, parsedPlan, llmResponse>>]_vars

\* C17 witness: a confirmed plan was executed and wrote a file, in a run
\* whose LLM call returned and whose plan parsed.
C17_Witness ==
    /\ gpc = "done"
    /\ executeAnswer = "yes"
    /\ \E n \in 1..Len(ops) : ops[n].op = "write"

\* The calls of the LLM client that have sent their request and have not
\* settled.
InProgress ==
    Cardinality({n \in 1..Len(ops) : ops[n].op = "request"})
        - Cardinality({n \in 1..Len(ops) : ops[n].op = "settled"})

\* C21: during executePlan at most one LLM call or file operation is in
\* progress at any time.  While a call is in progress nothing else is
\* started: the request is the last operation made until the call settles.
\* The operations of a file come before those of the next file, whose
\* existence check follows the write of the file before it; a step is
\* started only when every step before it has succeeded, with all its files
\* written, or has failed.  The calls in progress are counted while a step
\* runs and when it is done; between steps no operation is made.
C21_OneAtATime ==
    /\ [](pc \in {"file", "llm", "write", "stepDone"} =>
            LET calls == InProgress
            IN  /\ calls \in {0, 1}
                /\ calls = 1 <=> pc = "llm"
                /\ calls = 1 => ops[Len(ops)].op = "request")
    /\ [][/\ pc \notin {"file", "llm", "write"} => ops' = ops
          /\ pc = "llm" =>
                /\ ops' = Append(ops, Op("settled", i, CurrentPath, <<>>))
                /\ i' = i /\ j' = j /\ fs' = fs /\ dirs' = dirs
          /\ Grows(ops, ops')
          /\ \A n \in (Len(ops) + 1)..Len(ops') :
                /\ ops'[n].idx = i
                /\ ops'[n].path \in {CurrentPath, Dirname(CurrentPath)}
          /\ i' >= i /\ (i' = i => j' >= j)
          /\ (pc = "file" /\ ops' # ops /\ j > 1) =>
                ops[Len(ops)] = Op("write", i, FullPath(RootDir, CurrentStep.files[j - 1]),
                                   fs[FullPath(RootDir, CurrentStep.files[j - 1])].content)
          /\ i' # i =>
                /\ pc = "loop"
                /\ \A n \in 1..Len(attempted) :
                      /\ attempted[n].outcome \in {"success", "failure"}
                      /\ attempted[n].outcome = "success" =>
                            CountOps("write", attempted[n].idx)
                                = Len(FilesOf(attempted[n].idx))]_vars

\* C21 witness: a plan has returned after a step with three files, each
\* with its own call, was followed by another step.
C21_Witness ==
    /\ pc = "returned"
    /\ \E k \in 1..Len(plan.steps) :
          /\ k < i
          /\ CountOps("settled", k) = 3
          /\ CountOps("write", k) = 3

\* The operations made for the file in progress: those from its existence
\* check on.
OpsOfFile ==
    LET checks == {n \in 1..Len(ops) : ops[n].op = "exists"}
        from   == CHOOSE n \in checks : \A m \in checks : m <= n
    IN  SubSeq(ops, from, Len(ops))

\* One step of the executor, as the claim about create and modify has it,
\* the file being overwritten with written.
ReadCallThenWriteStep(written) ==
    /\ (pc = "file" /\ ops' # ops) =>
          LET new == SubSeq(ops', Len(ops) + 1, Len(ops'))
              p   == CurrentPath
          IN  /\ \A n \in 1..Len(new) : new[n].op \notin {"existsDir", "mkdir", "write"}
              /\ \A n \in 1..Len(new) :
                    new[n].op \in {"llm", "request"} =>
                        IF fs[p].exists
                        THEN /\ new[n].data = fs[p].content
                             /\ \E m \in 1..(n - 1) : new[m] = Op("read", i, p, <<>>)
                        ELSE /\ new[n].data = <<>>
                             /\ \A m \in 1..Len(new) : new[m].op # "read"
    /\ pc \in {"file", "llm"} => fs' = fs /\ dirs' = dirs
    /\ (fs' # fs \/ dirs' # dirs) =>
          /\ pc = "write"
          /\ ops[Len(ops)] = Op("settled", i, CurrentPath, <<>>)
    /\ dirs' # dirs => ~fileExists /\ dirs' = dirs \cup {Dirname(CurrentPath)}
    /\ fs' # fs => fs' = [fs EXCEPT ![CurrentPath] = File(written)]

\* The call for the file in progress has failed: the file is as it was when
\* it was checked and read, and no directory was looked for or made.
LeftAsItWas ==
    (/\ pc = "stepDone"
     /\ ~result.success
     /\ ops # <<>>
     /\ ops[Len(ops)].op = "settled"
     /\ ops[Len(ops)].idx = i) =>
        /\ fs[CurrentPath] = IF fileExists THEN File(currentContent) ELSE NoFile
        /\ \A n \in 1..Len(OpsOfFile) :
              OpsOfFile[n].op \notin {"existsDir", "mkdir", "write"}

\* C22 as stated: modify reads the current content before the LLM call,
\* sends it in the prompt and overwrites the file with the model's whole
\* answer only after the call has returned; create writes and makes
\* directories only after its call has returned; a failed call leaves the
\* file unchanged and no directory made for it.
C22_WholeAnswerWritten ==
    /\ []LeftAsItWas
    /\ [][ReadCallThenWriteStep(content)]_vars

\* C22, amended: as above, the file being overwritten with the model's
\* answer stripped of one surrounding code fence.
C22_CleanedAnswerWritten ==
    /\ []LeftAsItWas
    /\ [][ReadCallThenWriteStep(CleanContent(content))]_vars

\* C22 witness: a plan has returned after a file was modified with a fenced
\* answer, the file holding the answer without its fence, and after a call
\* for a file that did not exist failed, leaving no file.
C22_Witness ==
    /\ pc = "returned"
    /\ \E n \in 1..Len(ops) :
          /\ ops[n].op = "write"
          /\ \E m \in 1..(n - 1) : ops[m] = Op("read", ops[n].idx, ops[n].path, <<>>)
    /\ ~result.success
    /\ ops[Len(ops)] = Op("settled", i, CurrentPath, <<>>)
    /\ ~fileExists
    /\ fs[CurrentPath] = NoFile

\* C23: create overwrites unconditionally.  When the path the existence
\* check found absent holds a file of another process by the time of the
\* write, create writes its generated content over it, has not read it, and
\* the step does not fail for it: a failure then comes from the filesystem
\* refusing the write.
C23_CreateOverwrites ==
    [][(/\ pc = "write"
        /\ pc' # "write"
        /\ ~fileExists
        /\ fs[CurrentPath] = File(ExternalContent)) =>
            /\ \A n \in 1..Len(OpsOfFile') : OpsOfFile'[n].op \notin {"read", "modify"}
            /\ ops'[Len(ops')] = Op("write", i, CurrentPath, CleanContent(content))
            /\ IF result' # NoResult /\ ~result'.success
               THEN error'.message = Str("writeError") /\ fs' = fs
               ELSE fs' = [fs EXCEPT ![CurrentPath] = File(CleanContent(content))]]_vars

\* C23 witness: a path was checked and found absent, another process wrote
\* it before the executor did, and the step succeeded with the generated
\* content on disk.
C23_Witness ==
    /\ pc = "returned"
    /\ \E e \in 1..Len(external), n \in 1..Len(ops), m \in 1..Len(ops) :
          /\ n < m
          /\ ops[n].op = "exists"
          /\ ops[n].path = external[e].path
          /\ ops[n + 1].op = "create"
          /\ n <= external[e].after
          /\ external[e].after < m
          /\ ops[m] = Op("write", ops[n].idx, external[e].path, <<"new">>)
          /\ \A q \in (n + 1)..(m - 1) : ops[q].op # "exists"
          /\ fs[external[e].path] = File(<<"new">>)
    /\ result.success

\* The keyword occurs in the lowercased path.
OccursIn(kw, file) ==
    LET low == ToLowerCase(file)
    IN  \E from \in 1..(Len(low) - Len(kw) + 1) :
            \A n \in 1..Len(kw) : low[from + n - 1] = kw[n]

\* The positions of allFiles that qualify: not referenced, and some
\* extracted keyword occurs in the lowercased path.
Qualifying ==
    {m \in 1..Len(allFiles) :
        /\ \A n \in 1..Len(referencedFiles) : referencedFiles[n] # allFiles[m]
        /\ \E n \in 1..Len(keywords) : OccursIn(keywords[n], allFiles[m])}

StepNumbers(p) ==
    [k \in 1..Len(Get(p, Str("steps")).v) |-> Get(Get(p, Str("steps")).v[k], Str("step")).n]

\* C25: parsePlanResponse validates only that summary is truthy and steps
\* is an array.  Whenever the span from the first opening brace to the last
\* closing brace is a JSON document that passes these two checks, that
\* document is returned unchanged, whatever its steps and its other fields
\* are.
C25_OnlySummaryAndSteps ==
    parsedPlan.type # "undefined" =>
        LET raw     == llmResponse
            opens   == {k \in 1..Len(raw) : IsPunct(raw[k], "{")}
            first   == CHOOSE a \in opens : \A k \in opens : a <= k
            closes  == {k \in (first + 1)..Len(raw) : IsPunct(raw[k], "}")}
            last    == CHOOSE b \in closes : \A k \in closes : k <= b
            doc     == JsonParse(SubSeq(raw, first, last))
            summary == Get(doc, Str("summary"))
            steps   == Get(doc, Str("steps"))
            Falsy(val) == \/ val.type \in {"undefined", "null"}
                          \/ val = JString(EmptyStr)
                          \/ val = JNumber(0)
                          \/ val = JBool(FALSE)
        IN  (/\ opens # {}
             /\ closes # {}
             /\ doc.type = "object"
             /\ ~Falsy(summary)
             /\ steps.type = "array") => parsedPlan = doc

\* C25 witness: a plan was returned whose step numbers are 2, 2, 1, whose
\* steps have no files and no reasoning, and which has no complexity,
\* prerequisites or risks.
C25_Witness ==
    /\ parsedPlan.type = "object"
    /\ StepNumbers(parsedPlan) = <<2, 2, 1>>
    /\ \A k \in 1..3 :
          /\ Get(Get(parsedPlan, Str("steps")).v[k], Str("files")) = Undefined
          /\ Get(Get(parsedPlan, Str("steps")).v[k], Str("reasoning")) = Undefined
    /\ Get(parsedPlan, Str("estimatedComplexity")) = Undefined
    /\ Get(parsedPlan, Str("prerequisites")) = Undefined
    /\ Get(parsedPlan, Str("risks")) = Undefined

(***************************************************************************)
(* Runs of executePlan in which every call comes back.  Each await of      *)
(* executePlan, executeStep, createFile and modifyFile (lines 769, 603,    *)
(* 607, 658, 723) resumes once its promise settles and every synchronous   *)
(* file-system call returns or throws, so a step of the flow that can be   *)
(* taken is eventually taken.                                              *)
(***************************************************************************)
SpecReturning == Init /\ [][Next]_vars /\ WF_vars(Next)

\* The number of LLM calls made for the step at position k is at most the
\* number of files the step lists.
OneCallPerFile == \A k \in 1..Len(plan.steps) : CountOps("llm", k) <= Len(FilesOf(k))

\* C26: executePlan terminates on every finite plan provided every LLM call
\* and every file-system call eventually returns or raises: it then returns
\* a result, after at most one LLM call per listed file.  While an LLM call
\* has not completed, the one thing that can happen is its completion: if
\* it never completes, executePlan never returns and no later file or step
\* is processed.
C26_ReturnsAResult ==
    /\ <>(pc = "returned")
    /\ [](pc = "returned" => OneCallPerFile)
    /\ [][pc = "llm" => /\ ops' = Append(ops, Op("settled", i, CurrentPath, <<>>))
                        /\ pc' \in {"write", "stepDone"}
                        /\ UNCHANGED <<i, j, fs, dirs, results>>]_vars

\* The write at position m of the history replaced the file: the step went
\* on after it or did not fail.
WriteDone(m) ==
    /\ ops[m].op = "write"
    /\ \/ \E q \in (m + 1)..Len(ops) : ops[q].idx = ops[m].idx
       \/ attempted[ops[m].idx].outcome # "failure"

\* The LLM calls of the operation chosen at position n of the history.
CallsOf(n) ==
    {q \in (n + 1)..Len(ops) :
        /\ ops[q].op = "llm"
        /\ \A r \in (n + 1)..q : ops[r].op \notin {"create", "modify"}}

LlmOps(k) == SelectSeq(ops, LAMBDA o : o.idx = k /\ o.op = "llm")

\* C27: the create/modify choice depends on the filesystem state at the
\* time each path is processed, not on the state when executePlan started.
\* The disk changes only by a write of the run, and each path is created
\* when it is absent at the moment it is reached and modified otherwise.  So
\* when a path that is absent at the start is listed twice, in one step or
\* in two, and its first processing succeeds, the first occurrence is
\* created and the second is modified, and the LLM call of the second
\* receives the content written by the first.  This is stated of each step
\* when it is done; what the history holds of a step never changes
\* afterwards.
C27_ChoiceAtProcessingTime ==
    /\ [](pc = "stepDone" => \A n \in OpsOfStep(i) :
            ops[n].op \in {"create", "modify"} =>
                LET written == {m \in 1..(n - 1) : ops[m].path = ops[n].path /\ WriteDone(m)}
                    last    == CHOOSE m \in written : \A q \in written : q <= m
                IN  written # {} =>
                        /\ ops[n].op = "modify"
                        /\ \A q \in CallsOf(n) : ops[q].data = ops[last].data)
    /\ [][/\ Len(ops) <= Len(ops')
          /\ SubSeq(ops', 1, Len(ops)) = ops
          /\ \A m \in (Len(ops) + 1)..Len(ops') : ops'[m].idx = i
          /\ \A n \in 1..Len(attempted) :
                attempted[n].outcome # "running" => attempted'[n] = attempted[n]]_vars
    /\ [][(pc = "file" /\ ops' # ops) =>
            /\ ops'[Len(ops) + 2].op = IF fs[CurrentPath].exists THEN "modify" ELSE "create"
            /\ \A q \in (Len(ops) + 3)..Len(ops') :
                  ops'[q].op = "llm" =>
                      ops'[q].data = IF fs[CurrentPath].exists THEN fs[CurrentPath].content
                                     ELSE <<>>]_vars
    /\ [][\A p \in DOMAIN fs :
            fs'[p] # fs[p] =>
                /\ pc = "write"
                /\ p = CurrentPath
                /\ ops'[Len(ops')] = Op("write", i, p, fs'[p].content)
                /\ fs'[p].exists]_vars

\* C27 witness: d/b is absent at the start and listed twice in step 1 and
\* again in step 2.  Step 1 has created it and then modified it, step 2 has
\* modified it, and each call made for a modification received what the
\* write before it had written.
C27_Witness ==
    /\ pc = "returned"
    /\ Len(plan.steps) >= 2
    /\ Len(Operations(1)) = 3
    /\ Operations(1)[2] = Op("create", 1, FullPath(RootDir, PathB), <<>>)
    /\ Operations(1)[3] = Op("modify", 1, FullPath(RootDir, PathB), <<>>)
    /\ Len(Operations(2)) = 3
    /\ Operations(2)[2] = Op("modify", 2, FullPath(RootDir, PathB), <<>>)
    /\ Len(LlmOps(1)) = 3
    /\ LlmOps(1)[2].data = <<>>
    /\ LlmOps(1)[3].data = <<"new">>
    /\ Len(LlmOps(2)) = 3
    /\ LlmOps(2)[2].data = <<"new">>

(***************************************************************************)
(* pollForAuth, api.ts lines 74-93: up to maxAttempts rounds of a two      *)
(* second wait, a request and a look at the answer.                        *)
(***************************************************************************)
MaxAttempts == 3

AuthData(authenticated, token) ==
    JObject(<<Member(Str("authenticated"), authenticated), Member(Str("token"), token)>>)

\* Bodies the auth server may send: authenticated with a token, with an
\* empty token, not authenticated with a token, authenticated without a
\* token, an empty object, null, and a body that is not JSON.
PollData ==
    { AuthData(JBool(TRUE), JString(Str("t1"))),
      AuthData(JBool(TRUE), JString(EmptyStr)),
      AuthData(JBool(FALSE), JString(Str("t1"))),
      JObject(<<Member(Str("authenticated"), JBool(TRUE))>>),
      JObject(<<>>),
      JNull,
      Invalid }

\* How a poll request may settle: a response with one of these bodies, an
\* error status whose body is authenticated and has a token, or a network
\* failure.
PollReplies ==
    {Response(200, EmptyStr, d) : d \in PollData}
        \cup { Response(500, EmptyStr, AuthData(JBool(TRUE), JString(Str("t2")))),
               [kind |-> "rejectError", status |-> 0, body |-> Str("fetch failed"),
                data |-> Undefined] }

\* Lines 80-90, the try block and its catch: the token to return, or
\* nothing when the round is over without one.  fetch rejecting, json()
\* rejecting and reading a property of null all end in the empty catch.
PollTry(r) ==
    IF r.kind # "response" THEN Undefined
    ELSE IF r.data.type = "invalid" THEN Undefined
    ELSE IF IsNullish(r.data) THEN Undefined
    ELSE IF Truthy(Get(r.data, Str("authenticated"))) /\ Truthy(Get(r.data, Str("token")))
    THEN Get(r.data, Str("token"))
    ELSE Undefined

\* The round ended in the catch block.
PollCaught(r) ==
    \/ r.kind # "response"
    \/ r.data.type = "invalid"
    \/ IsNullish(r.data)

\* A plausible slip: a round that ended in the catch block is tried again
\* without being counted.
NextAttemptRetrying(n, caught) == IF caught THEN n ELSE n + 1

\* Line 77, i++: every round counts, however it ended.
NextAttempt(n, caught) == n + 1

\* Line 77, i < maxAttempts, then line 78 (the wait) or line 92 (the throw).
PollLoop(n, max) ==
    IF n < max
    THEN [ppc |-> "wait", outcome |-> NoPollOutcome]
    ELSE [ppc |-> "thrown",
          outcome |-> [kind |-> "thrown", value |-> Undefined,
                       message |-> Str("Authentication timeout - magic link was not clicked")]]

InitPoll ==
    /\ ExecIdle
    /\ FilterIdle
    /\ IntentIdle
    /\ ParseIdle
    /\ CallIdle
    /\ FlowIdle
    /\ ExternalIdle
    /\ EditIdle
    /\ maxAttempts \in 0..MaxAttempts
    /\ attempt = 0
    /\ ppc = "idle"
    /\ pollRequests = 0
    /\ polled = <<>>
    /\ pollOutcome = NoPollOutcome

\* Lines 75-78: the call up to the first await.
PollForAuth ==
    /\ ppc = "idle"
    /\ attempt' = 0
    /\ ppc' = PollLoop(attempt', maxAttempts).ppc
    /\ pollOutcome' = PollLoop(attempt', maxAttempts).outcome
    /\ UNCHANGED <<maxAttempts, pollRequests, polled>>
    /\ UNCHANGED <<execVars, filterVars, intentVars, parseVars, callVars, flowVars>>
    /\ UNCHANGED <<external, editVars>>

\* Lines 78-81: the two seconds are over, the request is sent.
PollRequest ==
    /\ ppc = "wait"
    /\ pollRequests' = pollRequests + 1
    /\ ppc' = "fetch"
    /\ UNCHANGED <<maxAttempts, attempt, polled, pollOutcome>>
    /\ UNCHANGED <<execVars, filterVars, intentVars, parseVars, callVars, flowVars>>
    /\ UNCHANGED <<external, editVars>>

\* Lines 81-90 and 77: the request has settled and its body has been read
\* (or not); the token is returned or the next round begins.
PollSettles ==
    /\ ppc = "fetch"
    /\ \E r \in PollReplies :
          /\ polled' = Append(polled, r)
          /\ IF PollTry(r) # Undefined
             THEN /\ ppc' = "returned"
                  /\ pollOutcome' = [kind |-> "returned", value |-> PollTry(r),
                                     message |-> EmptyStr]
                  /\ attempt' = attempt
             ELSE /\ attempt' = NextAttempt(attempt, PollCaught(r))
                  /\ ppc' = PollLoop(attempt', maxAttempts).ppc
                  /\ pollOutcome' = PollLoop(attempt', maxAttempts).outcome
    /\ UNCHANGED <<maxAttempts, pollRequests>>
    /\ UNCHANGED <<execVars, filterVars, intentVars, parseVars, callVars, flowVars>>
    /\ UNCHANGED <<external, editVars>>

PollNext ==
    \/ PollForAuth
    \/ PollRequest
    \/ PollSettles

SpecPoll == InitPoll /\ [][PollNext]_vars

(***************************************************************************)
(* Properties of pollForAuth.                                              *)
(***************************************************************************)
\* The response is authenticated and carries a token.
CarriesToken(r) ==
    /\ r.kind = "response"
    /\ r.data.type = "object"
    /\ Get(r.data, Str("authenticated")) = JBool(TRUE)
    /\ Get(r.data, Str("token")).type = "string"
    /\ Get(r.data, Str("token")).s # EmptyStr

\* C28: pollForAuth makes at most maxAttempts poll requests, one after
\* another; it returns the token of the first response that is
\* authenticated and carries a token and makes no further request after it;
\* a request that fails or returns an unparseable body does not abort
\* polling and counts as one attempt; after maxAttempts attempts without
\* such a response it fails with the authentication-timeout error
\* (immediately, with no request, when maxAttempts is 0).
C28_PollForAuth ==
    /\ pollRequests <= maxAttempts
    /\ pollRequests - Len(polled) \in {0, 1}
    /\ pollRequests - Len(polled) = 1 <=> ppc = "fetch"
    /\ \A k \in 1..Len(polled) :
          CarriesToken(polled[k]) =>
              /\ k = Len(polled)
              /\ pollRequests = k
              /\ ppc = "returned"
              /\ pollOutcome = [kind |-> "returned",
                                value |-> Get(polled[k].data, Str("token")),
                                message |-> EmptyStr]
    /\ ppc = "returned" => polled # <<>> /\ CarriesToken(polled[Len(polled)])
    /\ ppc \in {"wait", "fetch", "thrown"} => attempt = Len(polled)
    /\ ppc \in {"wait", "fetch"} => Len(polled) < maxAttempts /\ pollOutcome = NoPollOutcome
    /\ ppc = "thrown" <=>
          /\ ppc # "idle"
          /\ Len(polled) = maxAttempts
          /\ \A k \in 1..Len(polled) : ~CarriesToken(polled[k])
    /\ ppc = "thrown" =>
          /\ pollRequests = maxAttempts
          /\ pollOutcome = [kind |-> "thrown", value |-> Undefined,
                            message |-> Str("Authentication timeout - magic link was not clicked")]

\* C28 witness: with maxAttempts = 3 the first request failed, the second
\* returned a body that is not JSON, and the third returned an
\* authenticated body with a token, which pollForAuth returned.
C28_Witness ==
    /\ ppc = "returned"
    /\ maxAttempts = 3
    /\ pollRequests = 3
    /\ Len(polled) = 3
    /\ polled[1].kind = "rejectError"
    /\ polled[2].kind = "response" /\ polled[2].data = Invalid
    /\ CarriesToken(polled[3])
    /\ pollOutcome.value = Get(polled[3].data, Str("token"))

(***************************************************************************)
(* smartInput, index.ts lines 97-216: a line editor on raw stdin.  A key   *)
(* event is the chunk stdin delivers, a sequence of character codes; the   *)
(* buffer is a sequence of character codes.                                *)
(***************************************************************************)
MaxBuffer == 4

\* Chunks stdin may deliver: Ctrl+C, carriage return, line feed, delete,
\* backspace, left arrow, right arrow, @, the first and the last printable
\* character (space and tilde), and chunks the handler ignores: a tab, a
\* character above tilde, two characters at once, the up arrow.
Keys ==
    { <<3>>, <<13>>, <<10>>, <<127>>, <<8>>, <<27, 91, 68>>, <<27, 91, 67>>, <<64>>,
      <<32>>, <<126>>, <<9>>, <<233>>, <<97, 97>>, <<27, 91, 65>> }

\* The files the autocomplete prompt may answer with: f and gh.
Selections == {<<102>>, <<103, 104>>}

LongestSelection ==
    CHOOSE n \in {Len(f) : f \in Selections} : \A f \in Selections : Len(f) <= n

\* The branch of keyHandler a chunk takes, lines 131-207, in the order of
\* the tests.
KeyKind(key) ==
    IF key = <<3>> THEN "ctrlC"
    ELSE IF key = <<13>> \/ key = <<10>> THEN "enter"
    ELSE IF key = <<127>> \/ key = <<8>> THEN "backspace"
    ELSE IF key = <<27, 91, 68>> THEN "left"
    ELSE IF key = <<27, 91, 67>> THEN "right"
    ELSE IF key = <<64>> THEN "at"
    ELSE IF Len(key) = 1 /\ key[1] >= 32 /\ key[1] <= 126 THEN "printable"
    ELSE "ignored"

\* String.prototype.slice(0, end) and slice(start), a negative index
\* counting from the end.
SliceUpTo(str, end) ==
    IF end < 0
    THEN SubSeq(str, 1, Len(str) + end)
    ELSE SubSeq(str, 1, IF end < Len(str) THEN end ELSE Len(str))

SliceToEnd(str, start) ==
    IF start < 0
    THEN SubSeq(str, (IF Len(str) + start > 0 THEN Len(str) + start ELSE 0) + 1, Len(str))
    ELSE SubSeq(str, start + 1, Len(str))

Line(buf, cur) == [buffer |-> buf, cursorPos |-> cur]

\* A plausible slip: the test of cursorPos is missing.
BackspaceUnguarded(buf, cur) == Line(SliceUpTo(buf, cur - 1) \o SliceToEnd(buf, cur), cur - 1)

\* Lines 149-153.
Backspace(buf, cur) ==
    IF cur > 0
    THEN Line(SliceUpTo(buf, cur - 1) \o SliceToEnd(buf, cur), cur - 1)
    ELSE Line(buf, cur)

\* Line 160.
LeftArrow(buf, cur) == IF cur > 0 THEN Line(buf, cur - 1) ELSE Line(buf, cur)

\* Line 165.
RightArrow(buf, cur) == IF cur < Len(buf) THEN Line(buf, cur + 1) ELSE Line(buf, cur)

\* Lines 208-209.
InsertKey(buf, cur, key) == Line(SliceUpTo(buf, cur) \o key \o SliceToEnd(buf, cur), cur + 1)

\* Lines 193-194.
InsertSelection(buf, cur, selectedFile) ==
    Line(SliceUpTo(buf, cur) \o <<64>> \o selectedFile \o SliceToEnd(buf, cur),
         cur + Len(selectedFile) + 1)

\* stdin.on('data', keyHandler) and stdin.removeListener('data', keyHandler),
\* on the number of registrations of keyHandler.
On(n) == n + 1

RemoveListener(n) == IF n > 0 THEN n - 1 ELSE 0

\* A plausible slip: the handler stays registered while the prompt is open.
BeforePromptKeepingHandler(n) == n

\* Line 174.
BeforePrompt(n) == RemoveListener(n)

InitEdit ==
    /\ ExecIdle
    /\ FilterIdle
    /\ IntentIdle
    /\ ParseIdle
    /\ CallIdle
    /\ FlowIdle
    /\ ExternalIdle
    /\ PollIdle
    /\ EditIdle

\* Lines 98-127 and 214: the call, up to the registration of keyHandler.
SmartInput ==
    /\ epc = "idle"
    /\ buffer' = <<>>
    /\ cursorPos' = 0
    /\ handlers' = On(handlers)
    /\ epc' = "reading"
    /\ UNCHANGED resolved
    /\ UNCHANGED <<execVars, filterVars, intentVars, parseVars, callVars, flowVars>>
    /\ UNCHANGED <<external, pollVars>>

\* keyHandler, lines 129-212, up to its return or its await: stdin gives
\* the chunk to keyHandler when keyHandler is registered.  The buffer is
\* kept within MaxBuffer characters.
KeyHandler(key) ==
    /\ handlers >= 1
    /\ epc # "exited"
    /\ LET kind == KeyKind(key)
           line == CASE kind = "backspace" -> Backspace(buffer, cursorPos)
                     [] kind = "left" -> LeftArrow(buffer, cursorPos)
                     [] kind = "right" -> RightArrow(buffer, cursorPos)
                     [] kind = "printable" -> InsertKey(buffer, cursorPos, key)
                     [] OTHER -> Line(buffer, cursorPos)
       IN  /\ kind = "printable" => Len(buffer) < MaxBuffer
           /\ kind = "at" => Len(buffer) + 1 + LongestSelection <= MaxBuffer
           /\ buffer' = line.buffer
           /\ cursorPos' = line.cursorPos
           /\ handlers' = CASE kind \in {"ctrlC", "enter"} -> RemoveListener(handlers)
                            [] kind = "at" -> BeforePrompt(handlers)
                            [] OTHER -> handlers
           /\ epc' = CASE kind = "ctrlC" -> "exited"
                       [] kind = "enter" -> "resolved"
                       [] kind = "at" -> "prompt"
                       [] OTHER -> epc
           /\ resolved' = IF kind = "enter" THEN [done |-> TRUE, value |-> buffer]
                          ELSE resolved
    /\ UNCHANGED <<execVars, filterVars, intentVars, parseVars, callVars, flowVars>>
    /\ UNCHANGED <<external, pollVars>>

StdinData == \E key \in Keys : KeyHandler(key)

\* Lines 180-203: the prompt has answered; the selection is inserted and
\* keyHandler is registered again.
PromptAnswers ==
    /\ epc = "prompt"
    /\ \E selectedFile \in Selections :
          /\ buffer' = InsertSelection(buffer, cursorPos, selectedFile).buffer
          /\ cursorPos' = InsertSelection(buffer, cursorPos, selectedFile).cursorPos
    /\ handlers' = On(handlers)
    /\ epc' = "reading"
    /\ UNCHANGED resolved
    /\ UNCHANGED <<execVars, filterVars, intentVars, parseVars, callVars, flowVars>>
    /\ UNCHANGED <<external, pollVars>>

\* Line 180: the prompt fails (searchFiles cannot list the directory).  The
\* rejection of keyHandler's promise is handled nowhere: the process ends,
\* or goes on with no keyHandler registered, as the runtime decides.
PromptRejects ==
    /\ epc = "prompt"
    /\ epc' \in {"exited", "stalled"}
    /\ UNCHANGED <<buffer, cursorPos, handlers, resolved>>
    /\ UNCHANGED <<execVars, filterVars, intentVars, parseVars, callVars, flowVars>>
    /\ UNCHANGED <<external, pollVars>>

EditNext ==
    \/ SmartInput
    \/ StdinData
    \/ PromptAnswers
    \/ PromptRejects

SpecEdit == InitEdit /\ [][EditNext]_vars

(***************************************************************************)
(* Properties of smartInput.                                               *)
(***************************************************************************)
\* The buffer with text put in before the character at position cur + 1.
WithInserted(buf, cur, text) ==
    [n \in 1..(Len(buf) + Len(text)) |->
        IF n <= cur THEN buf[n]
        ELSE IF n <= cur + Len(text) THEN text[n - cur]
        ELSE buf[n - Len(text)]]

\* The buffer without the character at position cur.
WithoutChar(buf, cur) ==
    [n \in 1..(Len(buf) - 1) |-> IF n < cur THEN buf[n] ELSE buf[n + 1]]

\* C29: in the smartInput line editor, after any sequence of key events
\* (printable characters, backspace, left arrow, right arrow, @ with a file
\* selection), 0 <= cursorPos <= length of the buffer; backspace at
\* position 0 and right arrow at the end of the buffer leave both buffer
\* and cursorPos unchanged, and Enter resolves with the buffer exactly as
\* built: a printable character and a selection (after an @) go in at the
\* cursor, which moves behind them, backspace takes out the character
\* before the cursor, the arrows move the cursor by one and leave the
\* buffer alone, and nothing else changes the buffer.
C29_CursorWithinBuffer ==
    /\ [](0 <= cursorPos /\ cursorPos <= Len(buffer))
    /\ [](resolved.done => resolved.value = buffer)
    /\ [][\A key \in Keys : KeyHandler(key) =>
            /\ (key \in {<<127>>, <<8>>} /\ cursorPos = 0) =>
                  buffer' = buffer /\ cursorPos' = cursorPos
            /\ (key = <<27, 91, 67>> /\ cursorPos = Len(buffer)) =>
                  buffer' = buffer /\ cursorPos' = cursorPos
            /\ (key \in {<<127>>, <<8>>} /\ cursorPos > 0) =>
                  buffer' = WithoutChar(buffer, cursorPos) /\ cursorPos' = cursorPos - 1
            /\ (key = <<27, 91, 68>> /\ cursorPos > 0) =>
                  buffer' = buffer /\ cursorPos' = cursorPos - 1
            /\ (key = <<27, 91, 67>> /\ cursorPos < Len(buffer)) =>
                  buffer' = buffer /\ cursorPos' = cursorPos + 1
            /\ key \in {<<32>>, <<126>>} =>
                  buffer' = WithInserted(buffer, cursorPos, key) /\ cursorPos' = cursorPos + 1
            /\ key \in {<<13>>, <<10>>} =>
                  /\ resolved' = [done |-> TRUE, value |-> buffer]
                  /\ buffer' = buffer
            /\ key \in {<<3>>, <<64>>, <<9>>, <<233>>, <<97, 97>>, <<27, 91, 65>>} =>
                  buffer' = buffer /\ cursorPos' = cursorPos]_vars
    /\ [][epc = "prompt" =>
            \/ buffer' = buffer /\ cursorPos' = cursorPos
            \/ \E selectedFile \in Selections :
                  /\ buffer' = WithInserted(buffer, cursorPos, <<64>> \o selectedFile)
                  /\ cursorPos' = cursorPos + Len(selectedFile) + 1]_vars

\* C29 witness: Enter has resolved with a buffer of four characters, a
\* selection in its middle, while the cursor stood before the first
\* character, where backspace changes nothing.
C29_Witness ==
    /\ epc = "resolved"
    /\ resolved = [done |-> TRUE, value |-> <<126, 64, 102, 32>>]
    /\ buffer = <<126, 64, 102, 32>>
    /\ cursorPos = 0

\* C30: in smartInput at most one key handler is registered on stdin at any
\* time: typing @ removes the handler before the file autocomplete prompt
\* opens, so no key event changes the buffer while the prompt is open, and
\* the handler is registered again exactly once after the selection is
\* inserted; after Enter the handler is removed and the buffer is never
\* changed again.
C30_OneKeyHandler ==
    /\ [](handlers \in {0, 1})
    /\ [](handlers = 1 <=> epc = "reading")
    /\ [][(epc = "reading" /\ epc' = "prompt") =>
            handlers' = 0 /\ buffer' = buffer /\ cursorPos' = cursorPos]_vars
    /\ [][epc = "prompt" =>
            /\ handlers = 0
            /\ \A key \in Keys : ~KeyHandler(key)
            /\ \/ /\ epc' = "reading"
                  /\ handlers' = 1
                  /\ Len(buffer') > Len(buffer)
               \/ /\ epc' \in {"exited", "stalled"}
                  /\ handlers' = 0
                  /\ buffer' = buffer]_vars
    /\ [][(epc = "reading" /\ epc' = "resolved") =>
            handlers' = 0 /\ resolved' = [done |-> TRUE, value |-> buffer]]_vars
    /\ [][epc = "resolved" => buffer' = buffer /\ handlers' = 0 /\ resolved' = resolved]_vars

\* C30 witness: a tilde was typed, @ opened the prompt, f was selected, a
\* tilde was typed again with the handler registered once more, and Enter
\* resolved and removed the handler.
C30_Witness ==
    /\ epc = "resolved"
    /\ handlers = 0
    /\ resolved = [done |-> TRUE, value |-> <<126, 64, 102, 126>>]
    /\ cursorPos = 4

====
